---- MODULE Spec2Model ----
(***************************************************************************)
(* Model of the MedicalDeviceRegistry contract                             *)
(* (contracts/medical-device-tracking/src/lib.rs, types.rs), of the        *)
(* HealthcareAnalytics contract (contracts/healthcare-analytics/src/lib.rs)*)
(* and of the InsurerRegistry contract                                     *)
(* (contracts/insurer-registry/src/lib.rs).                                *)
(*                                                                         *)
(* A contract's storage is one variable per DataKey variant: a counter     *)
(* per entity category and a partial map per keyed record or index.  Every *)
(* contract entry point is one atomic action; the host serialises the      *)
(* invocations.  The variable `last` records the invocation that was just  *)
(* executed: its name, its arguments, whether the identity proof           *)
(* (require_auth) was satisfied and what it returned; the variable         *)
(* `before` holds the storage as that invocation found it, so that what an *)
(* invocation did to the storage is a fact of the state it leaves; `idle`  *)
(* counts the invocations in a row that left the storage as they found it. *)
(* The three contracts share no storage; each has its own specification    *)
(* (Spec, SpecAnalytics, SpecInsurer), in which the other two stay as      *)
(* deployed.                                                               *)
(***************************************************************************)
EXTENDS Integers, Sequences, FiniteSets, TLC

VARIABLES
    deviceCounter,       \* DataKey::DeviceCounter
    implantCounter,      \* DataKey::ImplantCounter
    dmeCounter,          \* DataKey::DmeCounter
    recallCounter,       \* DataKey::RecallCounter
    maintenanceCounter,  \* DataKey::MaintenanceCounter
    deviceRecord,        \* DataKey::DeviceRecord(u64)      -> DeviceRecord
    implantRecord,       \* DataKey::ImplantRecord(u64)     -> ImplantRecord
    dmeRecord,           \* DataKey::DmeRecord(u64)         -> DmePrescription
    recallInfo,          \* DataKey::RecallInfo(u64)        -> RecallInfo
    maintenanceRecord,   \* DataKey::MaintenanceRecord(u64) -> MaintenanceRecord
    patientImplants,     \* DataKey::PatientImplants(Address) -> Vec<u64>
    deviceImplants,      \* DataKey::DeviceImplants(u64)      -> Vec<u64>
    deviceRecalls,       \* DataKey::DeviceRecalls(u64)       -> Vec<u64>
    performanceReports,  \* DataKey::PerformanceReports(u64)  -> Vec<PerformanceReport>
    metricCounter,       \* analytics DataKey::MetricCounter
    metric,              \* analytics DataKey::Metric(u64)           -> MetricRecord
    metricsByType,       \* analytics DataKey::MetricsByType(Symbol) -> Vec<u64>
    insurer,             \* registry DataKey::Insurer(Address)         -> InsurerData
    claimsReviewers,     \* registry DataKey::ClaimsReviewers(Address) -> Vec<Address>
    last,                \* the invocation just executed and its outcome
    before,              \* the storage as that invocation found it
    idle                 \* invocations in a row that left the storage as found

counters == <<deviceCounter, implantCounter, dmeCounter, recallCounter,
              maintenanceCounter>>
records  == <<deviceRecord, implantRecord, dmeRecord, recallInfo,
              maintenanceRecord>>
indices  == <<patientImplants, deviceImplants, deviceRecalls,
              performanceReports>>
store    == <<counters, records, indices>>
analytics == <<metricCounter, metric, metricsByType>>
registry  == <<insurer, claimsReviewers>>
vars     == <<store, analytics, registry, last, before, idle>>

\* The storage of the three contracts, one field per key.
Ledger ==
    [deviceCounter |-> deviceCounter,
     implantCounter |-> implantCounter,
     dmeCounter |-> dmeCounter,
     recallCounter |-> recallCounter,
     maintenanceCounter |-> maintenanceCounter,
     deviceRecord |-> deviceRecord,
     implantRecord |-> implantRecord,
     dmeRecord |-> dmeRecord,
     recallInfo |-> recallInfo,
     maintenanceRecord |-> maintenanceRecord,
     patientImplants |-> patientImplants,
     deviceImplants |-> deviceImplants,
     deviceRecalls |-> deviceRecalls,
     performanceReports |-> performanceReports,
     metricCounter |-> metricCounter,
     metric |-> metric,
     metricsByType |-> metricsByType,
     insurer |-> insurer,
     claimsReviewers |-> claimsReviewers]
\* counters, records, indices, store and registry as the invocation just
\* executed found them.
OldCounters == <<before.deviceCounter, before.implantCounter, before.dmeCounter,
                 before.recallCounter, before.maintenanceCounter>>
OldRecords  == <<before.deviceRecord, before.implantRecord, before.dmeRecord,
                 before.recallInfo, before.maintenanceRecord>>
OldIndices  == <<before.patientImplants, before.deviceImplants, before.deviceRecalls,
                 before.performanceReports>>
OldStore    == <<OldCounters, OldRecords, OldIndices>>
OldRegistry == <<before.insurer, before.claimsReviewers>>
\* What an invocation leaves to the observer: the storage it found, and how
\* many invocations in a row have now left the storage as they found it.
Observed ==
    /\ before' = Ledger
    /\ idle' = IF Ledger' = Ledger THEN idle + 1 ELSE 0

(***************************************************************************)
(* Bounds of the exploration.                                              *)
(***************************************************************************)
MaxDevices == 2
MaxImplants == 2
MaxDme == 1
MaxRecalls == 2
MaxMaintenance == 2
MaxReports == 2
MaxRecallLen == 2
\* The number of successful state-changing invocations of a behaviour.
MaxWrites == 5
\* The number of invocations in a row that leave the storage as they found
\* it, after which a behaviour is followed no further.  No handler reads
\* `last`, `before` or `idle`: what an invocation does depends on the storage
\* alone, so every storage the contract reaches within MaxWrites writes, and
\* every invocation from it, is explored with MaxIdle = 1 already.
MaxIdle == 1

(***************************************************************************)
(* Input domains.                                                          *)
(***************************************************************************)
Patients     == {"GA", "GB"}
Providers    == {"GP"}
Manufacturers == {"GM"}
\* Identities that sign without holding the role the operation names.
Address      == Patients \cup Providers
DeviceIds    == 1..MaxDevices
ImplantIds   == 1..MaxImplants
RecallIds    == 1..MaxRecalls
Hash         == "h32"
\* The proofs an invocation may come with: of nobody, or of one of the
\* identities it names.
Proofs(named) == {{}} \cup {{a} : a \in named}

\* Option<T>: None is the empty sequence, Some(v) the one-element sequence.
None    == <<>>
Some(v) == <<v>>

\* The device lists a recall may be issued with: every sequence of device
\* identifiers of length 0..MaxRecallLen (identifiers may repeat).
DeviceIdLists == UNION {[1..n -> DeviceIds] : n \in 0..MaxRecallLen}

\* remove_implant is tried with these (removal_date, removal_reason,
\* explant_analysis_hash) triples, which differ in every component.
Removals == {<<20, "worn", None>>, <<21, "infection", Some(Hash)>>}

NotificationDates == {31, 32}
Complications == {Some(<<"pain">>)}

(***************************************************************************)
(* Outcomes of an invocation.  Ok and Err are the two cases of             *)
(* Result<T, Error>; AuthTrap is require_auth aborting the invocation in   *)
(* the host (no contract Error value is returned).                         *)
(***************************************************************************)
Ok(v)    == [tag |-> "Ok", val |-> v]
Err(e)   == [tag |-> "Err", val |-> e]
AuthTrap == [tag |-> "Trap", val |-> "Auth"]

RecordNotFound  == Err("RecordNotFound")
DeviceNotActive == Err("DeviceNotActive")

Call(op, args, auth, ret) == [op |-> op, args |-> args, auth |-> auth, ret |-> ret]

(***************************************************************************)
(* Storage primitives.                                                     *)
(***************************************************************************)
\* storage().has(key)
Has(m, k) == k \in DOMAIN m
\* storage().set(key, value)
Set(m, k, v) == [x \in (DOMAIN m) \cup {k} |-> IF x = k THEN v ELSE m[x]]
\* storage().get(key).unwrap_or(Vec::new(&env))
GetVec(m, k) == IF k \in DOMAIN m THEN m[k] ELSE <<>>
\* Vec::push_back
PushBack(s, x) == Append(s, x)

EmptyMap == [x \in {} |-> 0]

\* Number of performance reports stored over all implants.
RECURSIVE ReportCount(_)
ReportCount(ids) ==
    IF ids = {} THEN 0
    ELSE LET i == CHOOSE x \in ids : TRUE
         IN  Len(performanceReports[i]) + ReportCount(ids \ {i})

\* Number of successful state-changing invocations so far: every one of them
\* allocates an identifier, removes an implant or appends a report.
Writes ==
    deviceCounter + implantCounter + dmeCounter + recallCounter + maintenanceCounter
    + Cardinality({i \in DOMAIN implantRecord : ~implantRecord[i].is_active})
    + ReportCount(DOMAIN performanceReports)
CanWrite == Writes < MaxWrites

Init ==
    /\ deviceCounter = 0
    /\ implantCounter = 0
    /\ dmeCounter = 0
    /\ recallCounter = 0
    /\ maintenanceCounter = 0
    /\ deviceRecord = EmptyMap
    /\ implantRecord = EmptyMap
    /\ dmeRecord = EmptyMap
    /\ recallInfo = EmptyMap
    /\ maintenanceRecord = EmptyMap
    /\ patientImplants = EmptyMap
    /\ deviceImplants = EmptyMap
    /\ deviceRecalls = EmptyMap
    /\ performanceReports = EmptyMap
    /\ metricCounter = 0
    /\ metric = EmptyMap
    /\ metricsByType = EmptyMap
    /\ insurer = EmptyMap
    /\ claimsReviewers = EmptyMap
    /\ last = Call("deploy", <<>>, TRUE, Ok(0))
    /\ before = Ledger
    /\ idle = 0

(***************************************************************************)
(* register_device                                                         *)
(***************************************************************************)
\* Faulty variant of register_device: the new counter value is not stored.
register_device_counter_not_stored(device_udi, device_type, manufacturer, model_number, lot_number, manufacturing_date, expiration_date, device_specs_hash) ==
    LET new_id == deviceCounter + 1
        device == [device_id          |-> new_id,
                   device_udi         |-> device_udi,
                   device_type        |-> device_type,
                   manufacturer       |-> manufacturer,
                   model_number       |-> model_number,
                   lot_number         |-> lot_number,
                   manufacturing_date |-> manufacturing_date,
                   expiration_date    |-> expiration_date,
                   device_specs_hash  |-> device_specs_hash]
    IN  /\ CanWrite /\ deviceCounter < MaxDevices
        /\ deviceRecord' = Set(deviceRecord, new_id, device)
        /\ last' = Call("register_device", [device_udi |-> device_udi],
                        TRUE, Ok(new_id))
        /\ UNCHANGED <<counters, implantRecord, dmeRecord,
                       recallInfo, maintenanceRecord, indices>>

\* Faulty variant of register_device: the new device starts with an empty
\* recall index.
register_device_fresh_index(device_udi, device_type, manufacturer, model_number, lot_number, manufacturing_date, expiration_date, device_specs_hash) ==
    LET new_id == deviceCounter + 1
        device == [device_id          |-> new_id,
                   device_udi         |-> device_udi,
                   device_type        |-> device_type,
                   manufacturer       |-> manufacturer,
                   model_number       |-> model_number,
                   lot_number         |-> lot_number,
                   manufacturing_date |-> manufacturing_date,
                   expiration_date    |-> expiration_date,
                   device_specs_hash  |-> device_specs_hash]
    IN  /\ CanWrite /\ deviceCounter < MaxDevices
        /\ deviceCounter' = new_id
        /\ deviceRecord' = Set(deviceRecord, new_id, device)
        /\ last' = Call("register_device", [device_udi |-> device_udi],
                        TRUE, Ok(new_id))
        /\ deviceRecalls' = Set(deviceRecalls, new_id, <<>>)
        /\ UNCHANGED <<implantCounter, dmeCounter, recallCounter,
                       maintenanceCounter, implantRecord, dmeRecord,
                       recallInfo, maintenanceRecord, patientImplants,
                       deviceImplants, performanceReports>>

register_device(device_udi, device_type, manufacturer, model_number, lot_number, manufacturing_date, expiration_date, device_specs_hash) ==
    LET new_id == deviceCounter + 1
        device == [device_id          |-> new_id,
                   device_udi         |-> device_udi,
                   device_type        |-> device_type,
                   manufacturer       |-> manufacturer,
                   model_number       |-> model_number,
                   lot_number         |-> lot_number,
                   manufacturing_date |-> manufacturing_date,
                   expiration_date    |-> expiration_date,
                   device_specs_hash  |-> device_specs_hash]
    IN  /\ CanWrite /\ deviceCounter < MaxDevices
        /\ deviceCounter' = new_id
        /\ deviceRecord' = Set(deviceRecord, new_id, device)
        /\ last' = Call("register_device", [device_udi |-> device_udi],
                        TRUE, Ok(new_id))
        /\ UNCHANGED <<implantCounter, dmeCounter, recallCounter,
                       maintenanceCounter, implantRecord, dmeRecord,
                       recallInfo, maintenanceRecord, indices>>

(***************************************************************************)
(* implant_device                                                          *)
(***************************************************************************)
NewImplantRecord(new_id, patient_id, device_id, provider_id, implant_date, implant_location, surgical_notes_hash) ==
    [implant_record_id     |-> new_id,
     patient_id            |-> patient_id,
     device_id             |-> device_id,
     implant_date          |-> implant_date,
     implant_location      |-> implant_location,
     implanting_provider   |-> provider_id,
     surgical_notes_hash   |-> surgical_notes_hash,
     is_active             |-> TRUE,
     removal_date          |-> None,
     removal_reason        |-> None,
     explant_analysis_hash |-> None,
     maintenance_history   |-> <<>>]

\* storage().persistent().has(&DataKey::DeviceRecord(device_id)); the
\* _unchecked variant is the handler without its existence test.
DeviceExists_unchecked(device_id) == TRUE
DeviceExists(device_id) == Has(deviceRecord, device_id)

\* The patient's implant index after new_id is pushed onto it (the _front
\* variant inserts at the head instead).
AppendPatientImplant_front(patient_id, new_id) ==
    Set(patientImplants, patient_id, <<new_id>> \o GetVec(patientImplants, patient_id))
AppendPatientImplant(patient_id, new_id) ==
    Set(patientImplants, patient_id, PushBack(GetVec(patientImplants, patient_id), new_id))

\* The device's implant index after new_id is pushed onto it (the _front
\* variant inserts at the head instead).
AppendDeviceImplant_front(device_id, new_id) ==
    Set(deviceImplants, device_id, <<new_id>> \o GetVec(deviceImplants, device_id))
AppendDeviceImplant(device_id, new_id) ==
    Set(deviceImplants, device_id, PushBack(GetVec(deviceImplants, device_id), new_id))

implant_device(patient_id, device_id, provider_id, implant_date, implant_location, surgical_notes_hash, authed) ==
    LET args == [patient_id |-> patient_id, device_id |-> device_id]
        new_id == implantCounter + 1
        record == NewImplantRecord(new_id, patient_id, device_id, provider_id,
                                   implant_date, implant_location,
                                   surgical_notes_hash)
    IN  IF ~authed
        THEN /\ last' = Call("implant_device", args, authed, AuthTrap)
             /\ UNCHANGED store
        ELSE IF ~DeviceExists(device_id)
        THEN /\ last' = Call("implant_device", args, authed, RecordNotFound)
             /\ UNCHANGED store
        ELSE /\ CanWrite /\ implantCounter < MaxImplants
             /\ implantCounter' = new_id
             /\ implantRecord' = Set(implantRecord, new_id, record)
             /\ patientImplants' = AppendPatientImplant(patient_id, new_id)
             /\ deviceImplants' = AppendDeviceImplant(device_id, new_id)
             /\ last' = Call("implant_device", args, authed, Ok(new_id))
             /\ UNCHANGED <<deviceCounter, dmeCounter, recallCounter,
                            maintenanceCounter, deviceRecord, dmeRecord,
                            recallInfo, maintenanceRecord, deviceRecalls,
                            performanceReports>>

(***************************************************************************)
(* prescribe_dme                                                           *)
(***************************************************************************)
\* Faulty variant of prescribe_dme: an unregistered device is rejected.
prescribe_dme_device_checked(patient_id, provider_id, device_type, device_id, prescription_date, duration_days, instructions_hash, authed) ==
    LET args == [device_id |-> device_id]
        new_id == dmeCounter + 1
        prescription == [prescription_id   |-> new_id,
                         patient_id        |-> patient_id,
                         provider_id       |-> provider_id,
                         device_type       |-> device_type,
                         device_id         |-> device_id,
                         prescription_date |-> prescription_date,
                         duration_days     |-> duration_days,
                         instructions_hash |-> instructions_hash]
    IN  IF ~authed
        THEN /\ last' = Call("prescribe_dme", args, authed, AuthTrap)
             /\ UNCHANGED store
        ELSE IF ~Has(deviceRecord, device_id)
        THEN /\ last' = Call("prescribe_dme", args, authed, RecordNotFound)
             /\ UNCHANGED store
        ELSE /\ CanWrite /\ dmeCounter < MaxDme
             /\ dmeCounter' = new_id
             /\ dmeRecord' = Set(dmeRecord, new_id, prescription)
             /\ last' = Call("prescribe_dme", args, authed, Ok(new_id))
             /\ UNCHANGED <<deviceCounter, implantCounter, recallCounter,
                            maintenanceCounter, deviceRecord, implantRecord,
                            recallInfo, maintenanceRecord, indices>>

\* Faulty variant of prescribe_dme: the identifier is allocated from the
\* device counter.
prescribe_dme_device_counter(patient_id, provider_id, device_type, device_id, prescription_date, duration_days, instructions_hash, authed) ==
    LET args == [device_id |-> device_id]
        new_id == deviceCounter + 1
        prescription == [prescription_id   |-> new_id,
                         patient_id        |-> patient_id,
                         provider_id       |-> provider_id,
                         device_type       |-> device_type,
                         device_id         |-> device_id,
                         prescription_date |-> prescription_date,
                         duration_days     |-> duration_days,
                         instructions_hash |-> instructions_hash]
    IN  IF ~authed
        THEN /\ last' = Call("prescribe_dme", args, authed, AuthTrap)
             /\ UNCHANGED store
        ELSE /\ CanWrite /\ deviceCounter < MaxDevices
             /\ deviceCounter' = new_id
             /\ dmeRecord' = Set(dmeRecord, new_id, prescription)
             /\ last' = Call("prescribe_dme", args, authed, Ok(new_id))
             /\ UNCHANGED <<dmeCounter, implantCounter, recallCounter,
                            maintenanceCounter, deviceRecord, implantRecord,
                            recallInfo, maintenanceRecord, indices>>

prescribe_dme(patient_id, provider_id, device_type, device_id, prescription_date, duration_days, instructions_hash, authed) ==
    LET args == [device_id |-> device_id]
        new_id == dmeCounter + 1
        prescription == [prescription_id   |-> new_id,
                         patient_id        |-> patient_id,
                         provider_id       |-> provider_id,
                         device_type       |-> device_type,
                         device_id         |-> device_id,
                         prescription_date |-> prescription_date,
                         duration_days     |-> duration_days,
                         instructions_hash |-> instructions_hash]
    IN  IF ~authed
        THEN /\ last' = Call("prescribe_dme", args, authed, AuthTrap)
             /\ UNCHANGED store
        ELSE /\ CanWrite /\ dmeCounter < MaxDme
             /\ dmeCounter' = new_id
             /\ dmeRecord' = Set(dmeRecord, new_id, prescription)
             /\ last' = Call("prescribe_dme", args, authed, Ok(new_id))
             /\ UNCHANGED <<deviceCounter, implantCounter, recallCounter,
                            maintenanceCounter, deviceRecord, implantRecord,
                            recallInfo, maintenanceRecord, indices>>

(***************************************************************************)
(* record_device_maintenance                                               *)
(***************************************************************************)
\* record.maintenance_history.push_back(new_m_id) on the record read (the
\* _rebuilt variant writes back a fresh record instead of the one read).
MaintainedRecord_rebuilt(record, new_m_id) ==
    [NewImplantRecord(record.implant_record_id, record.patient_id, record.device_id, record.implanting_provider, record.implant_date, record.implant_location, record.surgical_notes_hash) EXCEPT !.maintenance_history = PushBack(record.maintenance_history, new_m_id)]
\* (the _front variant puts the new identifier at the head of the history)
MaintainedRecord_front(record, new_m_id) ==
    [record EXCEPT !.maintenance_history = <<new_m_id>> \o @]
\* (the _unlinked variant writes the record back without the new identifier)
MaintainedRecord_unlinked(record, new_m_id) == record
MaintainedRecord(record, new_m_id) ==
    [record EXCEPT !.maintenance_history = PushBack(@, new_m_id)]

\* Faulty variant of record_device_maintenance: the identifier is allocated
\* before the implant record is read.
record_device_maintenance_counter_first(implant_record_id, maintenance_date, maintenance_type, performed_by, notes_hash, authed) ==
    LET args == [implant_record_id |-> implant_record_id]
        new_m_id == maintenanceCounter + 1
        maintenance == [maintenance_id    |-> new_m_id,
                        implant_record_id |-> implant_record_id,
                        maintenance_date  |-> maintenance_date,
                        maintenance_type  |-> maintenance_type,
                        performed_by      |-> performed_by,
                        notes_hash        |-> notes_hash]
    IN  IF ~authed
        THEN /\ last' = Call("record_device_maintenance", args, authed, AuthTrap)
             /\ UNCHANGED store
        ELSE IF ~Has(implantRecord, implant_record_id)
        THEN /\ maintenanceCounter < MaxMaintenance
             /\ maintenanceCounter' = new_m_id
             /\ last' = Call("record_device_maintenance", args, authed,
                             RecordNotFound)
             /\ UNCHANGED <<deviceCounter, implantCounter, dmeCounter,
                            recallCounter, records, indices>>
        ELSE LET record == implantRecord[implant_record_id] IN
             /\ CanWrite /\ maintenanceCounter < MaxMaintenance
             /\ maintenanceCounter' = new_m_id
             /\ maintenanceRecord' = Set(maintenanceRecord, new_m_id, maintenance)
             /\ implantRecord' = Set(implantRecord, implant_record_id, MaintainedRecord(record, new_m_id))
             /\ last' = Call("record_device_maintenance", args, authed, Ok(<<>>))
             /\ UNCHANGED <<deviceCounter, implantCounter, dmeCounter,
                            recallCounter, deviceRecord, dmeRecord, recallInfo,
                            indices>>

\* Faulty variant of record_device_maintenance: a removed implant is refused.
record_device_maintenance_active_only(implant_record_id, maintenance_date, maintenance_type, performed_by, notes_hash, authed) ==
    LET args == [implant_record_id |-> implant_record_id]
        new_m_id == maintenanceCounter + 1
        maintenance == [maintenance_id    |-> new_m_id,
                        implant_record_id |-> implant_record_id,
                        maintenance_date  |-> maintenance_date,
                        maintenance_type  |-> maintenance_type,
                        performed_by      |-> performed_by,
                        notes_hash        |-> notes_hash]
    IN  IF ~authed
        THEN /\ last' = Call("record_device_maintenance", args, authed, AuthTrap)
             /\ UNCHANGED store
        ELSE IF ~Has(implantRecord, implant_record_id)
        THEN /\ last' = Call("record_device_maintenance", args, authed,
                             RecordNotFound)
             /\ UNCHANGED store
        ELSE IF ~implantRecord[implant_record_id].is_active
        THEN /\ last' = Call("record_device_maintenance", args, authed, DeviceNotActive)
             /\ UNCHANGED store
        ELSE LET record == implantRecord[implant_record_id] IN
             /\ CanWrite /\ maintenanceCounter < MaxMaintenance
             /\ maintenanceCounter' = new_m_id
             /\ maintenanceRecord' = Set(maintenanceRecord, new_m_id, maintenance)
             /\ implantRecord' = Set(implantRecord, implant_record_id, MaintainedRecord(record, new_m_id))
             /\ last' = Call("record_device_maintenance", args, authed, Ok(<<>>))
             /\ UNCHANGED <<deviceCounter, implantCounter, dmeCounter,
                            recallCounter, deviceRecord, dmeRecord, recallInfo,
                            indices>>

record_device_maintenance(implant_record_id, maintenance_date, maintenance_type, performed_by, notes_hash, authed) ==
    LET args == [implant_record_id |-> implant_record_id]
        new_m_id == maintenanceCounter + 1
        maintenance == [maintenance_id    |-> new_m_id,
                        implant_record_id |-> implant_record_id,
                        maintenance_date  |-> maintenance_date,
                        maintenance_type  |-> maintenance_type,
                        performed_by      |-> performed_by,
                        notes_hash        |-> notes_hash]
    IN  IF ~authed
        THEN /\ last' = Call("record_device_maintenance", args, authed, AuthTrap)
             /\ UNCHANGED store
        ELSE IF ~Has(implantRecord, implant_record_id)
        THEN /\ last' = Call("record_device_maintenance", args, authed,
                             RecordNotFound)
             /\ UNCHANGED store
        ELSE LET record == implantRecord[implant_record_id] IN
             /\ CanWrite /\ maintenanceCounter < MaxMaintenance
             /\ maintenanceCounter' = new_m_id
             /\ maintenanceRecord' = Set(maintenanceRecord, new_m_id, maintenance)
             /\ implantRecord' = Set(implantRecord, implant_record_id, MaintainedRecord(record, new_m_id))
             /\ last' = Call("record_device_maintenance", args, authed, Ok(<<>>))
             /\ UNCHANGED <<deviceCounter, implantCounter, dmeCounter,
                            recallCounter, deviceRecord, dmeRecord, recallInfo,
                            indices>>

(***************************************************************************)
(* issue_device_recall                                                     *)
(***************************************************************************)
\* The loop `for device_id in device_ids` of issue_device_recall, from list
\* position k on: each iteration reads the device's recall index (empty when
\* absent), pushes new_id and writes the index back.
\* Faulty variant: only the first device of the list is indexed.
IndexRecall_first_only(m, device_ids, k, new_id) ==
    IF device_ids = <<>> THEN m
    ELSE Set(m, device_ids[1], PushBack(GetVec(m, device_ids[1]), new_id))

\* Faulty variant: the recall is indexed under every device identifier.
IndexRecall_every_device(m, device_ids, k, new_id) ==
    [d \in DOMAIN m \cup DeviceIds |-> PushBack(GetVec(m, d), new_id)]

\* Faulty variant: a device that repeats in the list is indexed once.
RECURSIVE IndexRecall_dedup(_, _, _, _)
IndexRecall_dedup(m, device_ids, k, new_id) ==
    IF k > Len(device_ids) THEN m
    ELSE IF \E n \in 1..Len(GetVec(m, device_ids[k])) : GetVec(m, device_ids[k])[n] = new_id
         THEN IndexRecall_dedup(m, device_ids, k + 1, new_id)
         ELSE IndexRecall_dedup(Set(m, device_ids[k], PushBack(GetVec(m, device_ids[k]), new_id)), device_ids, k + 1, new_id)

RECURSIVE IndexRecall(_, _, _, _)
IndexRecall(m, device_ids, k, new_id) ==
    IF k > Len(device_ids) THEN m
    ELSE IndexRecall(Set(m, device_ids[k], PushBack(GetVec(m, device_ids[k]), new_id)), device_ids, k + 1, new_id)

\* Faulty variant of issue_device_recall: a list naming an unregistered
\* device is rejected.
issue_device_recall_validating(manufacturer, device_ids, recall_reason, severity, recall_date, action_required, authed) ==
    LET args == [device_ids |-> device_ids]
        new_id == recallCounter + 1
        recall == [recall_id           |-> new_id,
                   device_ids          |-> device_ids,
                   recall_reason       |-> recall_reason,
                   severity            |-> severity,
                   recall_date         |-> recall_date,
                   action_required     |-> action_required,
                   resolution_deadline |-> None]
    IN  IF ~authed
        THEN /\ last' = Call("issue_device_recall", args, authed, AuthTrap)
             /\ UNCHANGED store
        ELSE IF \E k \in 1..Len(device_ids) : ~Has(deviceRecord, device_ids[k])
        THEN /\ last' = Call("issue_device_recall", args, authed, RecordNotFound)
             /\ UNCHANGED store
        ELSE /\ CanWrite /\ recallCounter < MaxRecalls
             /\ recallCounter' = new_id
             /\ recallInfo' = Set(recallInfo, new_id, recall)
             /\ deviceRecalls' = IndexRecall(deviceRecalls, device_ids, 1, new_id)
             /\ last' = Call("issue_device_recall", args, authed, Ok(new_id))
             /\ UNCHANGED <<deviceCounter, implantCounter, dmeCounter,
                            maintenanceCounter, deviceRecord, implantRecord,
                            dmeRecord, maintenanceRecord, patientImplants,
                            deviceImplants, performanceReports>>

issue_device_recall(manufacturer, device_ids, recall_reason, severity, recall_date, action_required, authed) ==
    LET args == [device_ids |-> device_ids]
        new_id == recallCounter + 1
        recall == [recall_id           |-> new_id,
                   device_ids          |-> device_ids,
                   recall_reason       |-> recall_reason,
                   severity            |-> severity,
                   recall_date         |-> recall_date,
                   action_required     |-> action_required,
                   resolution_deadline |-> None]
    IN  IF ~authed
        THEN /\ last' = Call("issue_device_recall", args, authed, AuthTrap)
             /\ UNCHANGED store
        ELSE /\ CanWrite /\ recallCounter < MaxRecalls
             /\ recallCounter' = new_id
             /\ recallInfo' = Set(recallInfo, new_id, recall)
             /\ deviceRecalls' = IndexRecall(deviceRecalls, device_ids, 1, new_id)
             /\ last' = Call("issue_device_recall", args, authed, Ok(new_id))
             /\ UNCHANGED <<deviceCounter, implantCounter, dmeCounter,
                            maintenanceCounter, deviceRecord, implantRecord,
                            dmeRecord, maintenanceRecord, patientImplants,
                            deviceImplants, performanceReports>>

(***************************************************************************)
(* notify_affected_patients                                                *)
(***************************************************************************)
\* The inner loop `for implant_id in implant_ids`, from position j on, with
\* the patients collected so far in acc.
\* Faulty variants of the inner loop: one that does not test is_active, one
\* that skips a patient already collected.
RECURSIVE AffectedOfImplants_unfiltered(_, _, _)
AffectedOfImplants_unfiltered(implant_ids, j, acc) ==
    IF j > Len(implant_ids) THEN acc
    ELSE LET implant_id == implant_ids[j] IN
         IF Has(implantRecord, implant_id)
         THEN AffectedOfImplants_unfiltered(implant_ids, j + 1, PushBack(acc, implantRecord[implant_id].patient_id))
         ELSE AffectedOfImplants_unfiltered(implant_ids, j + 1, acc)

RECURSIVE AffectedOfImplants_dedup(_, _, _)
AffectedOfImplants_dedup(implant_ids, j, acc) ==
    IF j > Len(implant_ids) THEN acc
    ELSE LET implant_id == implant_ids[j] IN
         IF /\ Has(implantRecord, implant_id)
            /\ implantRecord[implant_id].is_active
            /\ \A n \in 1..Len(acc) : acc[n] # implantRecord[implant_id].patient_id
         THEN AffectedOfImplants_dedup(implant_ids, j + 1, PushBack(acc, implantRecord[implant_id].patient_id))
         ELSE AffectedOfImplants_dedup(implant_ids, j + 1, acc)

RECURSIVE AffectedOfImplants(_, _, _)
AffectedOfImplants(implant_ids, j, acc) ==
    IF j > Len(implant_ids) THEN acc
    ELSE LET implant_id == implant_ids[j] IN
         IF Has(implantRecord, implant_id) /\ implantRecord[implant_id].is_active
         THEN AffectedOfImplants(implant_ids, j + 1, PushBack(acc, implantRecord[implant_id].patient_id))
         ELSE AffectedOfImplants(implant_ids, j + 1, acc)

\* Faulty variant of the outer loop: it walks the device list backwards.
RECURSIVE AffectedOfDevices_reversed(_, _, _)
AffectedOfDevices_reversed(device_ids, k, acc) ==
    IF k > Len(device_ids) THEN acc
    ELSE AffectedOfDevices_reversed(device_ids, k + 1, AffectedOfImplants(GetVec(deviceImplants, device_ids[Len(device_ids) + 1 - k]), 1, acc))

\* The outer loop `for device_id in recall.device_ids`, from position k on.
RECURSIVE AffectedOfDevices(_, _, _)
AffectedOfDevices(device_ids, k, acc) ==
    IF k > Len(device_ids) THEN acc
    ELSE AffectedOfDevices(device_ids, k + 1, AffectedOfImplants(GetVec(deviceImplants, device_ids[k]), 1, acc))

\* The value notify_affected_patients returns in the current state (the
\* _lenient variant answers an unknown recall with an empty list).
NotifyResult_lenient(recall_id, notification_date) ==
    IF ~Has(recallInfo, recall_id) THEN Ok(<<>>)
    ELSE Ok(AffectedOfDevices(recallInfo[recall_id].device_ids, 1, <<>>))
\* (the _dated variant notifies nobody later than one time unit after the
\* recall date)
NotifyResult_dated(recall_id, notification_date) ==
    IF ~Has(recallInfo, recall_id) THEN RecordNotFound
    ELSE IF notification_date > recallInfo[recall_id].recall_date + 1 THEN Ok(<<>>)
    ELSE Ok(AffectedOfDevices(recallInfo[recall_id].device_ids, 1, <<>>))
NotifyResult(recall_id, notification_date) ==
    IF ~Has(recallInfo, recall_id) THEN RecordNotFound
    ELSE Ok(AffectedOfDevices(recallInfo[recall_id].device_ids, 1, <<>>))

notify_affected_patients(recall_id, notification_date) ==
    /\ last' = Call("notify_affected_patients", [recall_id |-> recall_id, notification_date |-> notification_date], TRUE, NotifyResult(recall_id, notification_date))
    /\ UNCHANGED store

(***************************************************************************)
(* remove_implant                                                          *)
(***************************************************************************)
\* The four field assignments of remove_implant on the record read.
\* (the _no_reason variant forgets removal_reason)
RemovedRecord_no_reason(record, removal_date, removal_reason, explant_analysis_hash) ==
    [record EXCEPT !.is_active = FALSE,
                   !.removal_date = Some(removal_date),
                   !.explant_analysis_hash = explant_analysis_hash]
\* (the _redated variant also overwrites implant_date with the removal date)
RemovedRecord_redated(record, removal_date, removal_reason, explant_analysis_hash) ==
    [record EXCEPT !.is_active = FALSE,
                   !.implant_date = removal_date,
                   !.removal_date = Some(removal_date),
                   !.removal_reason = Some(removal_reason),
                   !.explant_analysis_hash = explant_analysis_hash]
RemovedRecord(record, removal_date, removal_reason, explant_analysis_hash) ==
    [record EXCEPT !.is_active = FALSE,
                   !.removal_date = Some(removal_date),
                   !.removal_reason = Some(removal_reason),
                   !.explant_analysis_hash = explant_analysis_hash]

\* !record.is_active, the test that rejects a second removal (the _never
\* variant is the handler without it).
AlreadyRemoved_never(record) == FALSE
AlreadyRemoved(record) == ~record.is_active

\* Faulty variant of remove_implant: the removed implant is also taken out
\* of its patient's implant index.
remove_implant_unindexed(implant_record_id, provider_id, removal_date, removal_reason, explant_analysis_hash, authed) ==
    LET args == [implant_record_id |-> implant_record_id,
                 provider_id |-> provider_id,
                 removal_date |-> removal_date,
                 removal_reason |-> removal_reason,
                 explant_analysis_hash |-> explant_analysis_hash]
        Others(id) == id # implant_record_id
    IN  IF ~authed
        THEN /\ last' = Call("remove_implant", args, authed, AuthTrap)
             /\ UNCHANGED store
        ELSE IF ~Has(implantRecord, implant_record_id)
        THEN /\ last' = Call("remove_implant", args, authed, RecordNotFound)
             /\ UNCHANGED store
        ELSE IF AlreadyRemoved(implantRecord[implant_record_id])
        THEN /\ last' = Call("remove_implant", args, authed, DeviceNotActive)
             /\ UNCHANGED store
        ELSE /\ CanWrite
             /\ implantRecord' = Set(implantRecord, implant_record_id, RemovedRecord(implantRecord[implant_record_id], removal_date, removal_reason, explant_analysis_hash))
             /\ patientImplants' = [p \in DOMAIN patientImplants |-> SelectSeq(patientImplants[p], Others)]
             /\ last' = Call("remove_implant", args, authed, Ok(<<>>))
             /\ UNCHANGED <<counters, deviceRecord, dmeRecord, recallInfo,
                            maintenanceRecord, deviceImplants, deviceRecalls,
                            performanceReports>>

\* Faulty variant of remove_implant: only the implanting provider may remove.
remove_implant_own_provider(implant_record_id, provider_id, removal_date, removal_reason, explant_analysis_hash, authed) ==
    LET args == [implant_record_id |-> implant_record_id,
                 provider_id |-> provider_id,
                 removal_date |-> removal_date,
                 removal_reason |-> removal_reason,
                 explant_analysis_hash |-> explant_analysis_hash]
    IN  IF ~authed
        THEN /\ last' = Call("remove_implant", args, authed, AuthTrap)
             /\ UNCHANGED store
        ELSE IF ~Has(implantRecord, implant_record_id)
        THEN /\ last' = Call("remove_implant", args, authed, RecordNotFound)
             /\ UNCHANGED store
        ELSE IF implantRecord[implant_record_id].implanting_provider # provider_id
        THEN /\ last' = Call("remove_implant", args, authed, Err("NotAuthorized"))
             /\ UNCHANGED store
        ELSE IF AlreadyRemoved(implantRecord[implant_record_id])
        THEN /\ last' = Call("remove_implant", args, authed, DeviceNotActive)
             /\ UNCHANGED store
        ELSE /\ CanWrite
             /\ implantRecord' = Set(implantRecord, implant_record_id, RemovedRecord(implantRecord[implant_record_id], removal_date, removal_reason, explant_analysis_hash))
             /\ last' = Call("remove_implant", args, authed, Ok(<<>>))
             /\ UNCHANGED <<counters, deviceRecord, dmeRecord, recallInfo,
                            maintenanceRecord, indices>>

\* Faulty variant of remove_implant: the record is looked up and its state
\* checked before the identity proof.
remove_implant_lookup_first(implant_record_id, provider_id, removal_date, removal_reason, explant_analysis_hash, authed) ==
    LET args == [implant_record_id |-> implant_record_id,
                 provider_id |-> provider_id,
                 removal_date |-> removal_date,
                 removal_reason |-> removal_reason,
                 explant_analysis_hash |-> explant_analysis_hash]
    IN  IF ~Has(implantRecord, implant_record_id)
        THEN /\ last' = Call("remove_implant", args, authed, RecordNotFound)
             /\ UNCHANGED store
        ELSE IF AlreadyRemoved(implantRecord[implant_record_id])
        THEN /\ last' = Call("remove_implant", args, authed, DeviceNotActive)
             /\ UNCHANGED store
        ELSE IF ~authed
        THEN /\ last' = Call("remove_implant", args, authed, AuthTrap)
             /\ UNCHANGED store
        ELSE /\ CanWrite
             /\ implantRecord' = Set(implantRecord, implant_record_id, RemovedRecord(implantRecord[implant_record_id], removal_date, removal_reason, explant_analysis_hash))
             /\ last' = Call("remove_implant", args, authed, Ok(<<>>))
             /\ UNCHANGED <<counters, deviceRecord, dmeRecord, recallInfo,
                            maintenanceRecord, indices>>

remove_implant(implant_record_id, provider_id, removal_date, removal_reason, explant_analysis_hash, authed) ==
    LET args == [implant_record_id |-> implant_record_id,
                 provider_id |-> provider_id,
                 removal_date |-> removal_date,
                 removal_reason |-> removal_reason,
                 explant_analysis_hash |-> explant_analysis_hash]
    IN  IF ~authed
        THEN /\ last' = Call("remove_implant", args, authed, AuthTrap)
             /\ UNCHANGED store
        ELSE IF ~Has(implantRecord, implant_record_id)
        THEN /\ last' = Call("remove_implant", args, authed, RecordNotFound)
             /\ UNCHANGED store
        ELSE IF AlreadyRemoved(implantRecord[implant_record_id])
        THEN /\ last' = Call("remove_implant", args, authed, DeviceNotActive)
             /\ UNCHANGED store
        ELSE /\ CanWrite
             /\ implantRecord' = Set(implantRecord, implant_record_id, RemovedRecord(implantRecord[implant_record_id], removal_date, removal_reason, explant_analysis_hash))
             /\ last' = Call("remove_implant", args, authed, Ok(<<>>))
             /\ UNCHANGED <<counters, deviceRecord, dmeRecord, recallInfo,
                            maintenanceRecord, indices>>

(***************************************************************************)
(* track_device_performance                                                *)
(***************************************************************************)
\* Faulty variant of track_device_performance: a report equal to one that is
\* already stored for the implant is not stored again.
track_device_performance_dedup(implant_record_id, patient_id, performance_data_hash, reported_date, complications, authed) ==
    LET args == [implant_record_id |-> implant_record_id, patient_id |-> patient_id]
        report == [implant_record_id     |-> implant_record_id,
                   patient_id            |-> patient_id,
                   performance_data_hash |-> performance_data_hash,
                   reported_date         |-> reported_date,
                   complications         |-> complications]
        reports == GetVec(performanceReports, implant_record_id)
    IN  IF ~authed
        THEN /\ last' = Call("track_device_performance", args, authed, AuthTrap)
             /\ UNCHANGED store
        ELSE IF ~Has(implantRecord, implant_record_id)
        THEN /\ last' = Call("track_device_performance", args, authed, RecordNotFound)
             /\ UNCHANGED store
        ELSE IF \E n \in 1..Len(reports) : reports[n] = report
        THEN /\ last' = Call("track_device_performance", args, authed, Ok(<<>>))
             /\ UNCHANGED store
        ELSE /\ CanWrite /\ ReportCount(DOMAIN performanceReports) < MaxReports
             /\ performanceReports' = Set(performanceReports, implant_record_id, PushBack(reports, report))
             /\ last' = Call("track_device_performance", args, authed, Ok(<<>>))
             /\ UNCHANGED <<counters, records, patientImplants, deviceImplants,
                            deviceRecalls>>

track_device_performance(implant_record_id, patient_id, performance_data_hash, reported_date, complications, authed) ==
    LET args == [implant_record_id |-> implant_record_id, patient_id |-> patient_id]
        report == [implant_record_id     |-> implant_record_id,
                   patient_id            |-> patient_id,
                   performance_data_hash |-> performance_data_hash,
                   reported_date         |-> reported_date,
                   complications         |-> complications]
    IN  IF ~authed
        THEN /\ last' = Call("track_device_performance", args, authed, AuthTrap)
             /\ UNCHANGED store
        ELSE IF ~Has(implantRecord, implant_record_id)
        THEN /\ last' = Call("track_device_performance", args, authed, RecordNotFound)
             /\ UNCHANGED store
        ELSE /\ CanWrite /\ ReportCount(DOMAIN performanceReports) < MaxReports
             /\ performanceReports' = Set(performanceReports, implant_record_id, PushBack(GetVec(performanceReports, implant_record_id), report))
             /\ last' = Call("track_device_performance", args, authed, Ok(<<>>))
             /\ UNCHANGED <<counters, records, patientImplants, deviceImplants,
                            deviceRecalls>>

(***************************************************************************)
(* get_patient_implants                                                    *)
(***************************************************************************)
\* The loop `for id in implant_ids` of get_patient_implants, from position
\* j on, with the records collected so far in acc.
\* Faulty variant: the active_only flag is ignored.
RECURSIVE CollectImplants_unfiltered(_, _, _, _)
CollectImplants_unfiltered(implant_ids, j, active_only, acc) ==
    IF j > Len(implant_ids) THEN acc
    ELSE LET id == implant_ids[j] IN
         IF Has(implantRecord, id)
         THEN CollectImplants_unfiltered(implant_ids, j + 1, active_only, PushBack(acc, implantRecord[id]))
         ELSE CollectImplants_unfiltered(implant_ids, j + 1, active_only, acc)

RECURSIVE CollectImplants(_, _, _, _)
CollectImplants(implant_ids, j, active_only, acc) ==
    IF j > Len(implant_ids) THEN acc
    ELSE LET id == implant_ids[j] IN
         IF Has(implantRecord, id) /\ (~active_only \/ implantRecord[id].is_active)
         THEN CollectImplants(implant_ids, j + 1, active_only, PushBack(acc, implantRecord[id]))
         ELSE CollectImplants(implant_ids, j + 1, active_only, acc)

\* The value get_patient_implants returns in the current state (the
\* _own_only variant shows a patient's implants to the patient alone).
PatientImplantsResult_own_only(patient_id, requester, active_only, authed) ==
    IF ~authed THEN AuthTrap
    ELSE IF requester # patient_id THEN Ok(<<>>)
    ELSE Ok(CollectImplants(GetVec(patientImplants, patient_id), 1, active_only, <<>>))
PatientImplantsResult(patient_id, requester, active_only, authed) ==
    IF ~authed THEN AuthTrap
    ELSE Ok(CollectImplants(GetVec(patientImplants, patient_id), 1, active_only, <<>>))

\* Faulty variant of get_patient_implants: the index it read, or the empty
\* default, is written back.
get_patient_implants_writing_back(patient_id, requester, active_only, authed) ==
    /\ last' = Call("get_patient_implants", [patient_id |-> patient_id, requester |-> requester, active_only |-> active_only], authed, PatientImplantsResult(patient_id, requester, active_only, authed))
    /\ patientImplants' = Set(patientImplants, patient_id, GetVec(patientImplants, patient_id))
    /\ UNCHANGED <<counters, records, deviceImplants, deviceRecalls, performanceReports>>

get_patient_implants(patient_id, requester, active_only, authed) ==
    /\ last' = Call("get_patient_implants", [patient_id |-> patient_id, requester |-> requester, active_only |-> active_only], authed, PatientImplantsResult(patient_id, requester, active_only, authed))
    /\ UNCHANGED store

(***************************************************************************)
(* check_device_recalls                                                    *)
(***************************************************************************)
\* The loop `for id in recall_ids` of check_device_recalls.
\* Faulty variant: each record is put in front of those collected so far.
RECURSIVE CollectRecalls_newest_first(_, _, _)
CollectRecalls_newest_first(recall_ids, j, acc) ==
    IF j > Len(recall_ids) THEN acc
    ELSE IF Has(recallInfo, recall_ids[j])
         THEN CollectRecalls_newest_first(recall_ids, j + 1, <<recallInfo[recall_ids[j]]>> \o acc)
         ELSE CollectRecalls_newest_first(recall_ids, j + 1, acc)

RECURSIVE CollectRecalls(_, _, _)
CollectRecalls(recall_ids, j, acc) ==
    IF j > Len(recall_ids) THEN acc
    ELSE IF Has(recallInfo, recall_ids[j])
         THEN CollectRecalls(recall_ids, j + 1, PushBack(acc, recallInfo[recall_ids[j]]))
         ELSE CollectRecalls(recall_ids, j + 1, acc)

\* The value check_device_recalls returns in the current state.
DeviceRecallsResult(device_id) ==
    Ok(CollectRecalls(GetVec(deviceRecalls, device_id), 1, <<>>))

check_device_recalls(device_id) ==
    /\ last' = Call("check_device_recalls", [device_id |-> device_id], TRUE, DeviceRecallsResult(device_id))
    /\ UNCHANGED store

(***************************************************************************)
(* The contract: any entry point, with any arguments, at any time.         *)
(***************************************************************************)
RegisterDevice ==
    /\ idle < MaxIdle
    /\ register_device("UDI-1", "IMPLANT", "MedCorp", "MC-100", "LOT-001", 1, None, Hash)
    /\ UNCHANGED <<analytics, registry>>
    /\ Observed

\* An invocation carries the proofs of a set of identities; x.require_auth()
\* returns when x is one of them and aborts the invocation otherwise.
RequireAuth(address, proven) == address \in proven

\* Each Invoke definition is an entry point called with the proofs `proven`:
\* the last argument of the handler is the outcome of its require_auth call.
\* The _patient_proof variant of implant_device demands the proof of the
\* patient instead of the provider.
InvokeImplantDevice_patient_proof(patient_id, device_id, provider_id, proven) ==
    implant_device(patient_id, device_id, provider_id, 10, "Hip", Hash, RequireAuth(patient_id, proven))
InvokeImplantDevice(patient_id, device_id, provider_id, proven) ==
    implant_device(patient_id, device_id, provider_id, 10, "Hip", Hash, RequireAuth(provider_id, proven))

ImplantDevice ==
    /\ idle < MaxIdle
    /\ \E patient_id \in Patients, device_id \in DeviceIds, provider_id \in Providers :
         \E proven \in Proofs({patient_id, provider_id}) :
           InvokeImplantDevice(patient_id, device_id, provider_id, proven)
    /\ UNCHANGED <<analytics, registry>>
    /\ Observed

InvokePrescribeDme(patient_id, provider_id, device_id, proven) ==
    prescribe_dme(patient_id, provider_id, "DME", device_id, 5, Some(30), Hash, RequireAuth(provider_id, proven))

PrescribeDme ==
    /\ idle < MaxIdle
    /\ \E patient_id \in Patients, provider_id \in Providers, device_id \in DeviceIds :
         \E proven \in Proofs({patient_id, provider_id}) :
           InvokePrescribeDme(patient_id, provider_id, device_id, proven)
    /\ UNCHANGED <<analytics, registry>>
    /\ Observed

InvokeRecordDeviceMaintenance(implant_record_id, performed_by, proven) ==
    record_device_maintenance(implant_record_id, 15, "CHECKUP", performed_by, Hash, RequireAuth(performed_by, proven))

RecordDeviceMaintenance ==
    /\ idle < MaxIdle
    /\ \E implant_record_id \in ImplantIds, performed_by \in Providers :
         \E proven \in Proofs({performed_by}) :
           InvokeRecordDeviceMaintenance(implant_record_id, performed_by, proven)
    /\ UNCHANGED <<analytics, registry>>
    /\ Observed

InvokeIssueDeviceRecall(manufacturer, device_ids, proven) ==
    issue_device_recall(manufacturer, device_ids, "defect", "HIGH", 30, "monitor", RequireAuth(manufacturer, proven))

IssueDeviceRecall ==
    /\ idle < MaxIdle
    /\ \E manufacturer \in Manufacturers, device_ids \in DeviceIdLists :
         \E proven \in Proofs({manufacturer}) :
           InvokeIssueDeviceRecall(manufacturer, device_ids, proven)
    /\ UNCHANGED <<analytics, registry>>
    /\ Observed

NotifyAffectedPatients ==
    /\ idle < MaxIdle
    /\ \E recall_id \in RecallIds, notification_date \in NotificationDates :
           notify_affected_patients(recall_id, notification_date)
    /\ UNCHANGED <<analytics, registry>>
    /\ Observed

InvokeRemoveImplant(implant_record_id, provider_id, removal, proven) ==
    remove_implant(implant_record_id, provider_id, removal[1], removal[2], removal[3], RequireAuth(provider_id, proven))

RemoveImplant ==
    /\ idle < MaxIdle
    /\ \E implant_record_id \in ImplantIds, provider_id \in Address, removal \in Removals :
         \E proven \in Proofs({provider_id}) :
           InvokeRemoveImplant(implant_record_id, provider_id, removal, proven)
    /\ UNCHANGED <<analytics, registry>>
    /\ Observed

InvokeTrackDevicePerformance(implant_record_id, patient_id, complications, proven) ==
    track_device_performance(implant_record_id, patient_id, Hash, 40, complications, RequireAuth(patient_id, proven))

TrackDevicePerformance ==
    /\ idle < MaxIdle
    /\ \E implant_record_id \in ImplantIds, patient_id \in Patients, complications \in Complications :
         \E proven \in Proofs({patient_id}) :
           InvokeTrackDevicePerformance(implant_record_id, patient_id, complications, proven)
    /\ UNCHANGED <<analytics, registry>>
    /\ Observed

InvokeGetPatientImplants(patient_id, requester, active_only, proven) ==
    get_patient_implants(patient_id, requester, active_only, RequireAuth(requester, proven))

GetPatientImplants ==
    /\ idle < MaxIdle
    /\ \E patient_id \in Patients, requester \in Address, active_only \in BOOLEAN :
         \E proven \in Proofs({patient_id, requester}) :
           InvokeGetPatientImplants(patient_id, requester, active_only, proven)
    /\ UNCHANGED <<analytics, registry>>
    /\ Observed

CheckDeviceRecalls ==
    /\ idle < MaxIdle
    /\ \E device_id \in DeviceIds : check_device_recalls(device_id)
    /\ UNCHANGED <<analytics, registry>>
    /\ Observed

Next ==
    \/ RegisterDevice
    \/ ImplantDevice
    \/ PrescribeDme
    \/ RecordDeviceMaintenance
    \/ IssueDeviceRecall
    \/ NotifyAffectedPatients
    \/ RemoveImplant
    \/ TrackDevicePerformance
    \/ GetPatientImplants
    \/ CheckDeviceRecalls

Spec == Init /\ [][Next]_vars

(***************************************************************************)
(* HealthcareAnalytics (contracts/healthcare-analytics/src/lib.rs):        *)
(* record_metric and get_statistics.  Metric identifiers start at 0.       *)
(* Values are i128 in the contract; the inputs explored here are small, so *)
(* the accumulation `sum += record.value` stays far from the i128 limits.  *)
(* The event an entry point publishes is an output and is not part of the  *)
(* state.                                                                  *)
(***************************************************************************)
\* Number of metrics recorded in a behaviour.
MaxMetrics == 3

MetricTypes == {"bp", "hr"}
MetricValues == {-3, 2}
Categories2 == {"cardio", "neuro"}
Timestamps == {1, 2}
CategoryFilters == {None} \cup {Some(c) : c \in Categories2}

\* i128::MAX and i128::MIN, the initial values of the min and max
\* accumulators: here the largest and the least integer of the checker,
\* which no input value equals.
I128_MAX == 2147483647
I128_MIN == -I128_MAX - 1

InvalidTimeRange == Err("InvalidTimeRange")
NoDataFound == Err("NoDataFound")

record_metric(metric_type, value, category, timestamp, metadata_hash) ==
    LET id == metricCounter
        record == [id            |-> id,
                   metric_type   |-> metric_type,
                   value         |-> value,
                   category      |-> category,
                   timestamp     |-> timestamp,
                   metadata_hash |-> metadata_hash]
    IN  /\ metricCounter < MaxMetrics
        /\ metricCounter' = id + 1
        /\ metric' = Set(metric, id, record)
        /\ metricsByType' = Set(metricsByType, metric_type, PushBack(GetVec(metricsByType, metric_type), id))
        /\ last' = Call("record_metric", [metric_type |-> metric_type, value |-> value, category |-> category, timestamp |-> timestamp], TRUE, Ok(<<>>))

\* The two `continue` tests of the loop of get_statistics: the record lies
\* outside the time range, or a category is given and is not the record's.
\* Faulty variant: the end of the range is exclusive.
Skipped_end_exclusive(record, start_time, end_time, category) ==
    \/ record.timestamp < start_time \/ record.timestamp >= end_time
    \/ category # None /\ record.category # category[1]
Skipped(record, start_time, end_time, category) ==
    \/ record.timestamp < start_time \/ record.timestamp > end_time
    \/ category # None /\ record.category # category[1]

\* count += 1; sum += record.value; and the two comparisons that update
\* min and max.
Accumulate(acc, value) ==
    [count |-> acc.count + 1,
     sum   |-> acc.sum + value,
     min   |-> IF value < acc.min THEN value ELSE acc.min,
     max   |-> IF value > acc.max THEN value ELSE acc.max]

\* The loop `for i in 0..ids.len()` of get_statistics, from position i on.
RECURSIVE Aggregate(_, _, _, _, _, _)
Aggregate(ids, i, start_time, end_time, category, acc) ==
    IF i > Len(ids) THEN acc
    ELSE IF ~Has(metric, ids[i])
         THEN Aggregate(ids, i + 1, start_time, end_time, category, acc)
    ELSE IF Skipped(metric[ids[i]], start_time, end_time, category)
         THEN Aggregate(ids, i + 1, start_time, end_time, category, acc)
    ELSE Aggregate(ids, i + 1, start_time, end_time, category, Accumulate(acc, metric[ids[i]].value))

\* `sum / count as i128`: Rust's integer division truncates toward zero
\* (the _floor variant rounds toward minus infinity).
Quotient_floor(sum, count) == sum \div count
Quotient(sum, count) ==
    IF sum >= 0 THEN sum \div count ELSE -((-sum) \div count)

\* The value get_statistics returns in the current state.
\* Faulty variant: the time range is checked after the aggregation.
StatisticsResult_range_checked_last(metric_type, start_time, end_time, category) ==
    LET ids == GetVec(metricsByType, metric_type)
        acc == Aggregate(ids, 1, start_time, end_time, category, [count |-> 0, sum |-> 0, min |-> I128_MAX, max |-> I128_MIN])
    IN  IF acc.count = 0 THEN NoDataFound
        ELSE IF start_time > end_time THEN InvalidTimeRange
        ELSE Ok([metric_type  |-> metric_type,
                 count        |-> acc.count,
                 sum          |-> acc.sum,
                 average      |-> Quotient(acc.sum, acc.count),
                 min          |-> acc.min,
                 max          |-> acc.max,
                 period_start |-> start_time,
                 period_end   |-> end_time])

StatisticsResult(metric_type, start_time, end_time, category) ==
    LET ids == GetVec(metricsByType, metric_type)
        acc == Aggregate(ids, 1, start_time, end_time, category, [count |-> 0, sum |-> 0, min |-> I128_MAX, max |-> I128_MIN])
    IN  IF start_time > end_time THEN InvalidTimeRange
        ELSE IF acc.count = 0 THEN NoDataFound
        ELSE Ok([metric_type  |-> metric_type,
                 count        |-> acc.count,
                 sum          |-> acc.sum,
                 average      |-> Quotient(acc.sum, acc.count),
                 min          |-> acc.min,
                 max          |-> acc.max,
                 period_start |-> start_time,
                 period_end   |-> end_time])

get_statistics(metric_type, start_time, end_time, category) ==
    /\ last' = Call("get_statistics", [metric_type |-> metric_type, start_time |-> start_time, end_time |-> end_time, category |-> category], TRUE, StatisticsResult(metric_type, start_time, end_time, category))
    /\ UNCHANGED analytics

RecordMetric ==
    /\ idle < MaxIdle
    /\ \E metric_type \in MetricTypes, value \in MetricValues, category \in Categories2, timestamp \in Timestamps :
           record_metric(metric_type, value, category, timestamp, None)
    /\ UNCHANGED <<store, registry>>
    /\ Observed

GetStatistics ==
    /\ idle < MaxIdle
    /\ \E metric_type \in MetricTypes, start_time \in Timestamps, end_time \in Timestamps, category \in CategoryFilters :
           get_statistics(metric_type, start_time, end_time, category)
    /\ UNCHANGED <<store, registry>>
    /\ Observed

NextAnalytics ==
    \/ RecordMetric
    \/ GetStatistics

SpecAnalytics == Init /\ [][NextAnalytics]_vars

(***************************************************************************)
(* InsurerRegistry (contracts/insurer-registry/src/lib.rs).  The entry     *)
(* points return no Result: a failure is a panic, which aborts the         *)
(* invocation and discards its writes.                                     *)
(***************************************************************************)
\* Number of reviewers listed over all insurers.
MaxReviewers == 3

InsurerWallets == {"IA", "IB"}
ReviewerWallets == {"RA", "RB", "RC"}
Metadata == {"m1", "m2"}
ContactDetails == {"c1"}
CoveragePolicies == {"p1"}

Panic(message) == [tag |-> "Panic", val |-> message]

\* Number of reviewers listed so far over the insurers in W.
RECURSIVE ReviewerCount(_)
ReviewerCount(W) ==
    IF W = {} THEN 0
    ELSE LET w == CHOOSE x \in W : TRUE
         IN  Len(claimsReviewers[w]) + ReviewerCount(W \ {w})

\* Faulty variant of register_insurer: a second registration replaces the
\* first.
register_insurer_overwriting(wallet, name, license_id, metadata, authed) ==
    LET args == [wallet |-> wallet, metadata |-> metadata]
        data == [name              |-> name,
                 license_id        |-> license_id,
                 contact_details   |-> "",
                 coverage_policies |-> "",
                 metadata          |-> metadata]
    IN  IF ~authed
        THEN /\ last' = Call("register_insurer", args, authed, AuthTrap)
             /\ UNCHANGED registry
        ELSE /\ insurer' = Set(insurer, wallet, data)
             /\ claimsReviewers' = Set(claimsReviewers, wallet, <<>>)
             /\ last' = Call("register_insurer", args, authed, Ok(<<>>))

register_insurer(wallet, name, license_id, metadata, authed) ==
    LET args == [wallet |-> wallet, metadata |-> metadata]
        data == [name              |-> name,
                 license_id        |-> license_id,
                 contact_details   |-> "",
                 coverage_policies |-> "",
                 metadata          |-> metadata]
    IN  IF ~authed
        THEN /\ last' = Call("register_insurer", args, authed, AuthTrap)
             /\ UNCHANGED registry
        ELSE IF Has(insurer, wallet)
        THEN /\ last' = Call("register_insurer", args, authed, Panic("Insurer already registered"))
             /\ UNCHANGED registry
        ELSE /\ insurer' = Set(insurer, wallet, data)
             /\ claimsReviewers' = Set(claimsReviewers, wallet, <<>>)
             /\ last' = Call("register_insurer", args, authed, Ok(<<>>))

\* update_insurer, update_contact_details and update_coverage_policies: the
\* stored record with one field assigned, written back.
UpdateField(op, wallet, args, updated, authed) ==
    IF ~authed
    THEN /\ last' = Call(op, args, authed, AuthTrap)
         /\ UNCHANGED registry
    ELSE IF ~Has(insurer, wallet)
    THEN /\ last' = Call(op, args, authed, Panic("Insurer not found"))
         /\ UNCHANGED registry
    ELSE /\ insurer' = Set(insurer, wallet, updated)
         /\ last' = Call(op, args, authed, Ok(<<>>))
         /\ UNCHANGED claimsReviewers

update_insurer(wallet, metadata, authed) ==
    UpdateField("update_insurer", wallet, [wallet |-> wallet, metadata |-> metadata], [insurer[wallet] EXCEPT !.metadata = metadata], authed)

update_contact_details(wallet, contact_details, authed) ==
    UpdateField("update_contact_details", wallet, [wallet |-> wallet, contact_details |-> contact_details], [insurer[wallet] EXCEPT !.contact_details = contact_details], authed)

update_coverage_policies(wallet, coverage_policies, authed) ==
    UpdateField("update_coverage_policies", wallet, [wallet |-> wallet, coverage_policies |-> coverage_policies], [insurer[wallet] EXCEPT !.coverage_policies = coverage_policies], authed)

get_insurer(wallet) ==
    /\ last' = Call("get_insurer", [wallet |-> wallet], TRUE, IF Has(insurer, wallet) THEN Ok(insurer[wallet]) ELSE Panic("Insurer not found"))
    /\ UNCHANGED registry

\* The loop of add_claims_reviewer and of is_authorized_reviewer: some
\* position of the list holds reviewer_wallet.
\* Faulty variant: only the last position is compared.
Listed_last_only(reviewers, reviewer_wallet) ==
    reviewers # <<>> /\ reviewers[Len(reviewers)] = reviewer_wallet
Listed(reviewers, reviewer_wallet) ==
    \E i \in 1..Len(reviewers) : reviewers[i] = reviewer_wallet

add_claims_reviewer(insurer_wallet, reviewer_wallet, authed) ==
    LET args == [insurer_wallet |-> insurer_wallet, reviewer_wallet |-> reviewer_wallet]
        reviewers == GetVec(claimsReviewers, insurer_wallet)
    IN  IF ~authed
        THEN /\ last' = Call("add_claims_reviewer", args, authed, AuthTrap)
             /\ UNCHANGED registry
        ELSE IF ~Has(insurer, insurer_wallet)
        THEN /\ last' = Call("add_claims_reviewer", args, authed, Panic("Insurer not registered"))
             /\ UNCHANGED registry
        ELSE IF Listed(reviewers, reviewer_wallet)
        THEN /\ last' = Call("add_claims_reviewer", args, authed, Panic("Reviewer already authorized"))
             /\ UNCHANGED registry
        ELSE /\ ReviewerCount(DOMAIN claimsReviewers) < MaxReviewers
             /\ claimsReviewers' = Set(claimsReviewers, insurer_wallet, PushBack(reviewers, reviewer_wallet))
             /\ last' = Call("add_claims_reviewer", args, authed, Ok(<<>>))
             /\ UNCHANGED insurer

\* The loop of remove_claims_reviewer from position i on: new_reviewers
\* receives every element that is not reviewer_wallet, and found is set
\* when one is.
\* Faulty variant: the last element is moved into the place of the removed
\* one.
NewReviewers_swap_remove(reviewers, reviewer_wallet, i, acc) ==
    LET at == CHOOSE n \in 1..Len(reviewers) : reviewers[n] = reviewer_wallet
        shorter == SubSeq(reviewers, 1, Len(reviewers) - 1)
    IN  IF ~\E n \in 1..Len(reviewers) : reviewers[n] = reviewer_wallet
        THEN [new_reviewers |-> reviewers, found |-> FALSE]
        ELSE [new_reviewers |-> [n \in 1..Len(shorter) |-> IF n = at THEN reviewers[Len(reviewers)] ELSE shorter[n]],
              found |-> TRUE]

RECURSIVE NewReviewers(_, _, _, _)
NewReviewers(reviewers, reviewer_wallet, i, acc) ==
    IF i > Len(reviewers) THEN acc
    ELSE IF reviewers[i] # reviewer_wallet
         THEN NewReviewers(reviewers, reviewer_wallet, i + 1, [acc EXCEPT !.new_reviewers = PushBack(@, reviewers[i])])
         ELSE NewReviewers(reviewers, reviewer_wallet, i + 1, [acc EXCEPT !.found = TRUE])

remove_claims_reviewer(insurer_wallet, reviewer_wallet, authed) ==
    LET args == [insurer_wallet |-> insurer_wallet, reviewer_wallet |-> reviewer_wallet]
    IN  IF ~authed
        THEN /\ last' = Call("remove_claims_reviewer", args, authed, AuthTrap)
             /\ UNCHANGED registry
        ELSE IF ~Has(claimsReviewers, insurer_wallet)
        THEN /\ last' = Call("remove_claims_reviewer", args, authed, Panic("No reviewers found"))
             /\ UNCHANGED registry
        ELSE LET loop == NewReviewers(claimsReviewers[insurer_wallet], reviewer_wallet, 1, [new_reviewers |-> <<>>, found |-> FALSE])
             IN  IF ~loop.found
                 THEN /\ last' = Call("remove_claims_reviewer", args, authed, Panic("Reviewer not found"))
                      /\ UNCHANGED registry
                 ELSE /\ claimsReviewers' = Set(claimsReviewers, insurer_wallet, loop.new_reviewers)
                      /\ last' = Call("remove_claims_reviewer", args, authed, Ok(<<>>))
                      /\ UNCHANGED insurer

\* The values get_claims_reviewers and is_authorized_reviewer return in the
\* current state.
ClaimsReviewersResult(insurer_wallet) == GetVec(claimsReviewers, insurer_wallet)
IsAuthorizedResult(insurer_wallet, reviewer_wallet) ==
    Listed(GetVec(claimsReviewers, insurer_wallet), reviewer_wallet)

get_claims_reviewers(insurer_wallet) ==
    /\ last' = Call("get_claims_reviewers", [insurer_wallet |-> insurer_wallet], TRUE, Ok(ClaimsReviewersResult(insurer_wallet)))
    /\ UNCHANGED registry

is_authorized_reviewer(insurer_wallet, reviewer_wallet) ==
    /\ last' = Call("is_authorized_reviewer", [insurer_wallet |-> insurer_wallet, reviewer_wallet |-> reviewer_wallet], TRUE, Ok(IsAuthorizedResult(insurer_wallet, reviewer_wallet)))
    /\ UNCHANGED registry

RegisterInsurer ==
    /\ idle < MaxIdle
    /\ \E wallet \in InsurerWallets, metadata \in Metadata :
         \E proven \in Proofs({wallet}) :
           register_insurer(wallet, "Acme", "LIC-1", metadata, RequireAuth(wallet, proven))
    /\ UNCHANGED <<store, analytics>>
    /\ Observed

UpdateInsurer ==
    /\ idle < MaxIdle
    /\ \E wallet \in InsurerWallets, metadata \in Metadata :
         \E proven \in Proofs({wallet}) :
           update_insurer(wallet, metadata, RequireAuth(wallet, proven))
    /\ UNCHANGED <<store, analytics>>
    /\ Observed

UpdateContactDetails ==
    /\ idle < MaxIdle
    /\ \E wallet \in InsurerWallets, contact_details \in ContactDetails :
         \E proven \in Proofs({wallet}) :
           update_contact_details(wallet, contact_details, RequireAuth(wallet, proven))
    /\ UNCHANGED <<store, analytics>>
    /\ Observed

UpdateCoveragePolicies ==
    /\ idle < MaxIdle
    /\ \E wallet \in InsurerWallets, coverage_policies \in CoveragePolicies :
         \E proven \in Proofs({wallet}) :
           update_coverage_policies(wallet, coverage_policies, RequireAuth(wallet, proven))
    /\ UNCHANGED <<store, analytics>>
    /\ Observed

GetInsurer ==
    /\ idle < MaxIdle
    /\ \E wallet \in InsurerWallets : get_insurer(wallet)
    /\ UNCHANGED <<store, analytics>>
    /\ Observed

AddClaimsReviewer ==
    /\ idle < MaxIdle
    /\ \E insurer_wallet \in InsurerWallets, reviewer_wallet \in ReviewerWallets :
         \E proven \in Proofs({insurer_wallet, reviewer_wallet}) :
           add_claims_reviewer(insurer_wallet, reviewer_wallet, RequireAuth(insurer_wallet, proven))
    /\ UNCHANGED <<store, analytics>>
    /\ Observed

RemoveClaimsReviewer ==
    /\ idle < MaxIdle
    /\ \E insurer_wallet \in InsurerWallets, reviewer_wallet \in ReviewerWallets :
         \E proven \in Proofs({insurer_wallet, reviewer_wallet}) :
           remove_claims_reviewer(insurer_wallet, reviewer_wallet, RequireAuth(insurer_wallet, proven))
    /\ UNCHANGED <<store, analytics>>
    /\ Observed

GetClaimsReviewers ==
    /\ idle < MaxIdle
    /\ \E insurer_wallet \in InsurerWallets : get_claims_reviewers(insurer_wallet)
    /\ UNCHANGED <<store, analytics>>
    /\ Observed

IsAuthorizedReviewer ==
    /\ idle < MaxIdle
    /\ \E insurer_wallet \in InsurerWallets, reviewer_wallet \in ReviewerWallets :
           is_authorized_reviewer(insurer_wallet, reviewer_wallet)
    /\ UNCHANGED <<store, analytics>>
    /\ Observed

NextInsurer ==
    \/ RegisterInsurer
    \/ UpdateInsurer
    \/ UpdateContactDetails
    \/ UpdateCoveragePolicies
    \/ GetInsurer
    \/ AddClaimsReviewer
    \/ RemoveClaimsReviewer
    \/ GetClaimsReviewers
    \/ IsAuthorizedReviewer

SpecInsurer == Init /\ [][NextInsurer]_vars

(***************************************************************************)
(* Vocabulary of the properties.                                           *)
(***************************************************************************)
Range(s) == {s[n] : n \in 1..Len(s)}
Occurrences(s, x) == Cardinality({n \in 1..Len(s) : s[n] = x})
Inactive(i) == ~implantRecord[i].is_active
\* The same of the storage the invocation just executed found.
WasInactive(i) == ~before.implantRecord[i].is_active
IsActiveRecord(record) == record.is_active
StoreOps == {"implant_device", "record_device_maintenance", "remove_implant", "track_device_performance", "notify_affected_patients"}

(***************************************************************************)
(* C1.  Once an implant's active flag is false it is false in every later  *)
(* state, and its removal date, removal reason and explant-analysis hash   *)
(* keep the values the successful remove_implant gave them, whatever       *)
(* operation follows: every step maps an inactive implant to the same      *)
(* inactive implant with the same three removal fields.                    *)
(***************************************************************************)
C1_RemovalIsFinal ==
       \A i \in DOMAIN before.implantRecord :
          WasInactive(i) =>
              /\ i \in DOMAIN implantRecord
              /\ ~implantRecord[i].is_active
              /\ implantRecord[i].removal_date = before.implantRecord[i].removal_date
              /\ implantRecord[i].removal_reason = before.implantRecord[i].removal_reason
              /\ implantRecord[i].explant_analysis_hash = before.implantRecord[i].explant_analysis_hash

\* A removed implant whose record was just rewritten by a successful
\* record_device_maintenance.
C1_Witness ==
    /\ last.op = "record_device_maintenance"
    /\ last.ret.tag = "Ok"
    /\ Inactive(last.args.implant_record_id)
    /\ implantRecord[last.args.implant_record_id].removal_date = Some(21)
    /\ implantRecord[last.args.implant_record_id].maintenance_history # <<>>

(***************************************************************************)
(* C2.  After remove_implant has succeeded on an implant (the implant is   *)
(* stored and inactive), every remove_implant on it whose identity proof   *)
(* succeeds returns DeviceNotActive, whatever date, reason and hash it is  *)
(* called with.                                                            *)
(***************************************************************************)
C2_SecondRemovalRejected ==
       (/\ last.op = "remove_implant"
        /\ last.auth
        /\ Has(before.implantRecord, last.args.implant_record_id)
        /\ WasInactive(last.args.implant_record_id))
       => last.ret = DeviceNotActive

\* A rejected second removal that came with other arguments than the first.
C2_Witness ==
    /\ last.op = "remove_implant"
    /\ last.ret = DeviceNotActive
    /\ implantRecord[last.args.implant_record_id].removal_date # Some(last.args.removal_date)
    /\ implantRecord[last.args.implant_record_id].explant_analysis_hash # last.args.explant_analysis_hash

(***************************************************************************)
(* C3.  In every reachable state, for every stored implant: it is active   *)
(* iff it has no removal date, and iff it has no removal reason; an active *)
(* implant has no explant-analysis hash.                                   *)
(***************************************************************************)
C3_RemovalFieldsAtomic ==
    \A i \in DOMAIN implantRecord :
        /\ implantRecord[i].is_active <=> (implantRecord[i].removal_date = None)
        /\ implantRecord[i].is_active <=> (implantRecord[i].removal_reason = None)
        /\ implantRecord[i].is_active => (implantRecord[i].explant_analysis_hash = None)

\* remove_implant has just succeeded, without an explant hash, while another
\* implant is still active.
C3_Witness ==
    /\ last.op = "remove_implant"
    /\ last.ret.tag = "Ok"
    /\ implantRecord[last.args.implant_record_id].removal_reason = Some("worn")
    /\ implantRecord[last.args.implant_record_id].explant_analysis_hash = None
    /\ \E i \in DOMAIN implantRecord : implantRecord[i].is_active

(***************************************************************************)
(* C4.  implant_device with a device identifier that references no stored *)
(* device (identity proven) returns RecordNotFound and changes nothing: no *)
(* record, no index entry, no counter advance.  A successful               *)
(* implant_device returns the implant counter of its pre-state plus one,   *)
(* so a failed call before it does not change the identifier it returns.   *)
(***************************************************************************)
C4_UnknownDeviceRejected ==
       /\ (/\ last.op = "implant_device"
           /\ last.auth
           /\ ~Has(before.deviceRecord, last.args.device_id))
          => (last.ret = RecordNotFound /\ store = OldStore)
       /\ (last.op = "implant_device" /\ last.ret.tag = "Ok")
          => (/\ last.ret.val = before.implantCounter + 1
              /\ implantCounter = before.implantCounter + 1
              /\ DOMAIN implantRecord = DOMAIN before.implantRecord \cup {before.implantCounter + 1})

\* implant_device has just failed on the unknown device 2, after one implant
\* of device 1 was stored.
C4_Witness ==
    /\ last.op = "implant_device"
    /\ last.ret = RecordNotFound
    /\ last.args.device_id = 2
    /\ implantCounter = 1
    /\ DOMAIN implantRecord = {1}

(***************************************************************************)
(* C5.  notify_affected_patients on a stored recall returns exactly: for   *)
(* each device identifier of the recall's device list, in list order, for  *)
(* each implant identifier of that device's implant index, in index order, *)
(* the implant's patient if and only if the implant is active now.         *)
(***************************************************************************)
ActiveImplant(i) == implantRecord[i].is_active
DeviceIndex(d) == IF d \in DOMAIN deviceImplants THEN deviceImplants[d] ELSE <<>>
PatientsOfActive(d) ==
    LET act == SelectSeq(DeviceIndex(d), ActiveImplant)
    IN  [n \in 1..Len(act) |-> implantRecord[act[n]].patient_id]
RECURSIVE ExpectedAffected(_)
ExpectedAffected(ds) ==
    IF ds = <<>> THEN <<>> ELSE PatientsOfActive(Head(ds)) \o ExpectedAffected(Tail(ds))

C5_NotifyReturnsActiveInOrder ==
    /\ \A r \in DOMAIN recallInfo, t \in NotificationDates :
           NotifyResult(r, t) = Ok(ExpectedAffected(recallInfo[r].device_ids))
    /\ (last.op = "notify_affected_patients" /\ Has(recallInfo, last.args.recall_id))
       => last.ret = Ok(ExpectedAffected(recallInfo[last.args.recall_id].device_ids))

\* The recall lists device 2 before device 1; the patient of device 2's
\* implant comes first although that implant is the younger one.
C5_Witness ==
    /\ last.op = "notify_affected_patients"
    /\ last.ret = Ok(<<"GB", "GA">>)
    /\ recallInfo[last.args.recall_id].device_ids = <<2, 1>>
    /\ implantRecord[1].device_id = 1
    /\ implantRecord[1].patient_id = "GA"
    /\ implantRecord[2].device_id = 2

(***************************************************************************)
(* C6.  notify_affected_patients is computed from the state of the call:   *)
(* the patients it returns are exactly the patients of the implants that   *)
(* are active now and whose device the recall lists, whenever the recall   *)
(* was issued.  With implants of one recalled device on two patients it    *)
(* returns both; once one of the implants is removed it returns only the   *)
(* other patient.                                                          *)
(***************************************************************************)
ActiveImplantsOf(r) ==
    {i \in DOMAIN implantRecord :
        /\ implantRecord[i].is_active
        /\ implantRecord[i].device_id \in Range(recallInfo[r].device_ids)}
ActivePatientsOf(r) == {implantRecord[i].patient_id : i \in ActiveImplantsOf(r)}

C6_NotifyReadsCurrentState ==
    /\ \A r \in DOMAIN recallInfo, t \in NotificationDates :
           /\ NotifyResult(r, t).tag = "Ok"
           /\ Range(NotifyResult(r, t).val) = ActivePatientsOf(r)
    /\ (last.op = "notify_affected_patients" /\ last.ret.tag = "Ok")
       => Range(last.ret.val) = ActivePatientsOf(last.args.recall_id)

\* Device 1 is recalled and carries implant 1 of patient GA, removed, and
\* implant 2 of patient GB, active: the call returns GB alone.
C6_Witness ==
    /\ last.op = "notify_affected_patients"
    /\ last.ret = Ok(<<"GB">>)
    /\ recallInfo[last.args.recall_id].device_ids = <<1>>
    /\ GetVec(deviceImplants, 1) = <<1, 2>>
    /\ implantRecord[1].patient_id = "GA" /\ Inactive(1)
    /\ implantRecord[2].patient_id = "GB" /\ ~Inactive(2)

(***************************************************************************)
(* C7.  As claimed: the number of entries notify_affected_patients returns *)
(* equals the number of active implants whose device the recall lists, and *)
(* a patient with k such implants appears exactly k times.                 *)
(***************************************************************************)
C7_OneEntryPerActiveImplant ==
    \A r \in DOMAIN recallInfo, t \in NotificationDates :
        /\ Len(NotifyResult(r, t).val) = Cardinality(ActiveImplantsOf(r))
        /\ \A p \in Patients :
               Occurrences(NotifyResult(r, t).val, p)
                   = Cardinality({i \in ActiveImplantsOf(r) : implantRecord[i].patient_id = p})

(***************************************************************************)
(* C7, amended.  The result has one entry per position of the recall's     *)
(* device list and active implant of the device at that position: a device *)
(* listed m times contributes each of its active implants m times.  When   *)
(* no device identifier is repeated in the list, the number of entries is  *)
(* the number of active implants whose device is listed and a patient with *)
(* k such implants appears exactly k times; patients are never             *)
(* deduplicated.                                                           *)
(***************************************************************************)
ActiveImplantsOfDevice(d) ==
    {i \in DOMAIN implantRecord : implantRecord[i].is_active /\ implantRecord[i].device_id = d}
RECURSIVE EntriesFor(_, _)
EntriesFor(ds, S) ==
    IF ds = <<>> THEN 0
    ELSE Cardinality(ActiveImplantsOfDevice(Head(ds)) \cap S) + EntriesFor(Tail(ds), S)
ImplantsOfPatient(p) == {i \in DOMAIN implantRecord : implantRecord[i].patient_id = p}
NoRepeat(ds) == \A m, n \in 1..Len(ds) : ds[m] = ds[n] => m = n

C7_OneEntryPerListedImplant ==
    \A r \in DOMAIN recallInfo, t \in NotificationDates :
        LET ds == recallInfo[r].device_ids
            res == NotifyResult(r, t).val
        IN  /\ Len(res) = EntriesFor(ds, DOMAIN implantRecord)
            /\ \A p \in Patients : Occurrences(res, p) = EntriesFor(ds, ImplantsOfPatient(p))
            /\ NoRepeat(ds) =>
                   /\ Len(res) = Cardinality(ActiveImplantsOf(r))
                   /\ \A p \in Patients :
                          Occurrences(res, p)
                              = Cardinality({i \in ActiveImplantsOf(r) : implantRecord[i].patient_id = p})

\* Patient GA holds two active implants of recalled devices and
\* is returned twice.
C7_Witness ==
    /\ last.op = "notify_affected_patients"
    /\ last.ret = Ok(<<"GA", "GA">>)
    /\ NoRepeat(recallInfo[last.args.recall_id].device_ids)
    /\ Cardinality(ActiveImplantsOf(last.args.recall_id)) = 2

(***************************************************************************)
(* C8.  get_patient_implants(p, r, true) returns exactly the subsequence   *)
(* of get_patient_implants(p, r, false), in the same state, of the records *)
(* whose active flag is true, in the same relative order.                  *)
(***************************************************************************)
C8_ActiveOnlyIsSubsequence ==
    /\ \A p \in Patients, q \in Address :
           PatientImplantsResult(p, q, TRUE, TRUE)
               = Ok(SelectSeq(PatientImplantsResult(p, q, FALSE, TRUE).val, IsActiveRecord))
    /\ (last.op = "get_patient_implants" /\ last.auth /\ last.args.active_only)
       => last.ret = Ok(SelectSeq(PatientImplantsResult(last.args.patient_id, "GP", FALSE, TRUE).val, IsActiveRecord))

\* The patient has two implants, the first removed: the filtered call has
\* just returned the second record alone.
C8_Witness ==
    /\ last.op = "get_patient_implants"
    /\ last.args.active_only
    /\ last.ret.tag = "Ok"
    /\ Len(PatientImplantsResult(last.args.patient_id, "GP", FALSE, TRUE).val) = 2
    /\ ~PatientImplantsResult(last.args.patient_id, "GP", FALSE, TRUE).val[1].is_active
    /\ last.ret.val = <<PatientImplantsResult(last.args.patient_id, "GP", FALSE, TRUE).val[2]>>

(***************************************************************************)
(* C9.  get_patient_implants(p, r, false) returns the current records of   *)
(* all implants created for patient p, in creation order (ascending        *)
(* identifier), removed implants included; for a patient without implant   *)
(* it returns the empty sequence and no error.                             *)
(***************************************************************************)
ImplantsCreatedFor(p) ==
    LET all == [i \in 1..implantCounter |-> implantRecord[i]]
        OfPatient(record) == record.patient_id = p
    IN  SelectSeq(all, OfPatient)

C9_AllImplantsInCreationOrder ==
    /\ \A p \in Patients, q \in Address :
           /\ PatientImplantsResult(p, q, FALSE, TRUE) = Ok(ImplantsCreatedFor(p))
           /\ ImplantsOfPatient(p) = {} => PatientImplantsResult(p, q, FALSE, TRUE) = Ok(<<>>)
    /\ (last.op = "get_patient_implants" /\ last.auth /\ ~last.args.active_only)
       => last.ret = Ok(ImplantsCreatedFor(last.args.patient_id))

\* The unfiltered call has just returned implants 1 and 2 of the patient, in
\* that order, the first of them removed.
C9_Witness ==
    /\ last.op = "get_patient_implants"
    /\ ~last.args.active_only
    /\ last.ret.tag = "Ok"
    /\ Len(last.ret.val) = 2
    /\ last.ret.val[1].implant_record_id = 1 /\ ~last.ret.val[1].is_active
    /\ last.ret.val[2].implant_record_id = 2

(***************************************************************************)
(* C10.  A failing operation changes nothing: whenever implant_device,     *)
(* record_device_maintenance, remove_implant, track_device_performance or  *)
(* notify_affected_patients ends with RecordNotFound, DeviceNotActive or a *)
(* failed identity proof, every counter, record and index sequence is the  *)
(* same after the call as before it.                                       *)
(***************************************************************************)
C10_FailureChangesNothing ==
       (last.op \in StoreOps /\ last.ret.tag # "Ok") => store = OldStore

\* record_device_maintenance has just failed on an unknown implant while an
\* earlier maintenance event is stored.
C10_Witness ==
    /\ last.op = "record_device_maintenance"
    /\ last.ret = RecordNotFound
    /\ maintenanceCounter = 1
    /\ DOMAIN maintenanceRecord = {1}

(***************************************************************************)
(* C11.  With the identity proven, record_device_maintenance,              *)
(* track_device_performance and remove_implant return RecordNotFound       *)
(* exactly when the implant identifier is not one that a successful        *)
(* implant_device returned, and notify_affected_patients returns           *)
(* RecordNotFound exactly when the recall identifier is not one that       *)
(* issue_device_recall returned; nothing else makes them return it.  The   *)
(* identifiers returned so far are 1..counter: a successful allocation     *)
(* returns the counter it has just stored.                                 *)
(***************************************************************************)
ImplantOps == {"record_device_maintenance", "track_device_performance", "remove_implant"}
IssuedImplantIds == 1..implantCounter
IssuedRecallIds == 1..recallCounter

C11_NotFoundIffNeverIssued ==
    /\ (last.op = "implant_device" /\ last.ret.tag = "Ok") => last.ret.val = implantCounter
    /\ (last.op = "issue_device_recall" /\ last.ret.tag = "Ok") => last.ret.val = recallCounter
    /\ last.op \in ImplantOps =>
           (last.ret = RecordNotFound
               <=> (last.auth /\ last.args.implant_record_id \notin IssuedImplantIds))
    /\ last.op = "notify_affected_patients" =>
           (last.ret = RecordNotFound <=> last.args.recall_id \notin IssuedRecallIds)
    /\ \A r \in RecallIds, t \in NotificationDates :
           NotifyResult(r, t) = RecordNotFound <=> r \notin IssuedRecallIds

\* track_device_performance has just failed on implant 2, which was never
\* issued, while implant 1 is stored and recall 1 was issued.
C11_Witness ==
    /\ last.op = "track_device_performance"
    /\ last.auth
    /\ last.ret = RecordNotFound
    /\ last.args.implant_record_id = 2
    /\ implantCounter = 1
    /\ recallCounter = 1

(***************************************************************************)
(* C12.  The k-th successful register_device returns k.  The device        *)
(* counter is 0 at deployment; every register_device step returns the      *)
(* counter of its pre-state plus one and stores that value as the new      *)
(* counter; no other step, successful or failing, changes the device       *)
(* counter.  So the returned identifiers are 1, 2, 3, ... whatever is      *)
(* interleaved between the calls.                                          *)
(***************************************************************************)
C12_RegisterReturnsKth ==
    /\   (last.op = "deploy" => deviceCounter = 0)
    /\    /\ last.op = "register_device" =>
                 /\ last.ret = Ok(before.deviceCounter + 1)
                 /\ deviceCounter = before.deviceCounter + 1
          /\ last.op # "register_device" => deviceCounter = before.deviceCounter

\* The second register_device has just returned 2; an implant of device 1
\* and a recall were stored between the two registrations.
C12_Witness ==
    /\ last.op = "register_device"
    /\ last.ret = Ok(2)
    /\ implantCounter = 1
    /\ recallCounter = 1
    /\ DOMAIN deviceRecord = {1, 2}

(***************************************************************************)
(* C13.  For each of the five categories (device, implant, prescription,   *)
(* recall, maintenance event), in every reachable state the stored records *)
(* of the category are exactly those with identifiers 1..counter and each  *)
(* record carries the identifier it is stored under.  Across every step a  *)
(* counter either keeps its value or grows by one, at most one counter     *)
(* changes and only in the operation that allocates in its category, and   *)
(* a stored record stays stored under its identifier: no identifier is     *)
(* issued twice.                                                           *)
(***************************************************************************)
Categories == 1..5
AllocOp == <<"register_device", "implant_device", "prescribe_dme", "issue_device_recall", "record_device_maintenance">>
IdOf(c, record) ==
    CASE c = 1 -> record.device_id
      [] c = 2 -> record.implant_record_id
      [] c = 3 -> record.prescription_id
      [] c = 4 -> record.recall_id
      [] c = 5 -> record.maintenance_id

C13_RecordsAreOneToCounter ==
    /\   (\A c \in Categories :
              /\ DOMAIN records[c] = 1..counters[c]
              /\ \A k \in DOMAIN records[c] : IdOf(c, records[c][k]) = k)
    /\    /\ \A c \in Categories :
                 /\ counters[c] \in {OldCounters[c], OldCounters[c] + 1}
                 /\ counters[c] # OldCounters[c] =>
                        /\ last.op = AllocOp[c]
                        /\ last.ret.tag = "Ok"
                        /\ \A b \in Categories \ {c} : counters[b] = OldCounters[b]
                        /\ DOMAIN records[c] = DOMAIN OldRecords[c] \cup {OldCounters[c] + 1}
                        /\ OldCounters[c] + 1 \notin DOMAIN OldRecords[c]
                 /\ \A k \in DOMAIN OldRecords[c] :
                        /\ k \in DOMAIN records[c]
                        /\ IdOf(c, records[c][k]) = k

\* prescribe_dme has just issued prescription 1 while two devices, one
\* implant and one recall are stored.
C13_Witness ==
    /\ last.op = "prescribe_dme"
    /\ last.ret = Ok(1)
    /\ deviceCounter = 2
    /\ implantCounter = 1
    /\ recallCounter = 1
    /\ DOMAIN dmeRecord = {1}

(***************************************************************************)
(* C14.  As claimed: check_device_recalls(d) returns the records of the    *)
(* recalls whose device list contains d, each once, in the order in which  *)
(* the recalls were issued, and the empty sequence for a device without    *)
(* recall.                                                                 *)
(***************************************************************************)
RecallsIssued == [r \in 1..recallCounter |-> recallInfo[r]]
RecallsListing(d) ==
    LET Lists(recall) == d \in Range(recall.device_ids)
    IN  SelectSeq(RecallsIssued, Lists)

C14_RecallsOfDeviceOnce ==
    \A d \in DeviceIds : DeviceRecallsResult(d) = Ok(RecallsListing(d))

(***************************************************************************)
(* C14, amended.  check_device_recalls(d) never fails.  It returns the     *)
(* full records of the recalls whose device list contains d, in the order  *)
(* in which the recalls were issued, each recall once per occurrence of d  *)
(* in its device list; when no device list repeats d this is each such     *)
(* recall exactly once.  For a device no recall lists, registered or not,  *)
(* it returns the empty sequence.                                          *)
(***************************************************************************)
Copies(x, n) == [k \in 1..n |-> x]
RECURSIVE RecallEntries(_, _)
RecallEntries(d, n) ==
    IF n = 0 THEN <<>>
    ELSE RecallEntries(d, n - 1) \o Copies(recallInfo[n], Occurrences(recallInfo[n].device_ids, d))
ListedOnce(d) == \A r \in DOMAIN recallInfo : Occurrences(recallInfo[r].device_ids, d) <= 1

C14_RecallsOfDevicePerListing ==
    /\ \A d \in DeviceIds :
           /\ DeviceRecallsResult(d) = Ok(RecallEntries(d, recallCounter))
           /\ ListedOnce(d) => DeviceRecallsResult(d) = Ok(RecallsListing(d))
           /\ (\A r \in DOMAIN recallInfo : d \notin Range(recallInfo[r].device_ids))
              => DeviceRecallsResult(d) = Ok(<<>>)
    /\ last.op = "check_device_recalls" =>
           last.ret = Ok(RecallEntries(last.args.device_id, recallCounter))

\* Recall 1 lists devices 2 and 1, recall 2 lists device 1 alone; only
\* device 1 is registered.  check_device_recalls(1) has just returned the
\* two records, recall 1 first.
C14_Witness ==
    /\ last.op = "check_device_recalls"
    /\ last.args.device_id = 1
    /\ recallCounter = 2
    /\ recallInfo[1].device_ids = <<2, 1>>
    /\ recallInfo[2].device_ids = <<1>>
    /\ last.ret = Ok(<<recallInfo[1], recallInfo[2]>>)
    /\ DeviceRecallsResult(2) = Ok(<<recallInfo[1]>>)
    /\ deviceCounter = 1

(***************************************************************************)
(* C15.  After n successful record_device_maintenance calls on an implant, *)
(* the implant's maintenance history has length n and lists the allocated  *)
(* maintenance-event identifiers in the order of the calls.  In every      *)
(* reachable state the history of implant i is the ascending list of the   *)
(* stored maintenance events whose implant is i; a successful call on i    *)
(* appends the identifier it allocated at the end of i's history, and      *)
(* every other step leaves every history as it is.                         *)
(***************************************************************************)
MaintenanceEventsOf(i) ==
    LET all == [m \in 1..maintenanceCounter |-> m]
        OnImplant(m) == maintenanceRecord[m].implant_record_id = i
    IN  SelectSeq(all, OnImplant)
MaintenanceStep(i) ==
    /\ last.op = "record_device_maintenance"
    /\ last.ret.tag = "Ok"
    /\ last.args.implant_record_id = i

C15_HistoryListsCallsInOrder ==
    /\   (\A i \in DOMAIN implantRecord :
              implantRecord[i].maintenance_history = MaintenanceEventsOf(i))
    /\    \A i \in DOMAIN before.implantRecord :
              /\ i \in DOMAIN implantRecord
              /\ IF MaintenanceStep(i)
                 THEN /\ maintenanceCounter = before.maintenanceCounter + 1
                      /\ implantRecord[i].maintenance_history
                             = Append(before.implantRecord[i].maintenance_history, maintenanceCounter)
                      /\ maintenanceRecord[maintenanceCounter].implant_record_id = i
                 ELSE implantRecord[i].maintenance_history
                          = before.implantRecord[i].maintenance_history

\* The second maintenance call on implant 1 has just succeeded; the implant
\* was removed between the two calls.
C15_Witness ==
    /\ last.op = "record_device_maintenance"
    /\ last.ret.tag = "Ok"
    /\ last.args.implant_record_id = 1
    /\ implantRecord[1].maintenance_history = <<1, 2>>
    /\ Inactive(1)

(***************************************************************************)
(* C16.  Every index sequence (patient -> implants, device -> implants,    *)
(* device -> recalls) and every per-implant performance-report sequence is *)
(* append-only: across every step each stored sequence is still stored     *)
(* and its old value is a prefix of its new value.  No entry is removed,   *)
(* replaced or reordered, in particular not by remove_implant.             *)
(***************************************************************************)
IsPrefix(s, t) == Len(s) <= Len(t) /\ SubSeq(t, 1, Len(s)) = s

C16_IndicesAppendOnly ==
       \A n \in 1..4 : \A k \in DOMAIN OldIndices[n] :
           /\ k \in DOMAIN indices[n]
           /\ IsPrefix(OldIndices[n][k], indices[n][k])

\* remove_implant has just made implant 1 inactive; the implant is still the
\* first entry of its patient's and its device's index, before implant 2,
\* and its performance report is still stored.
C16_Witness ==
    /\ last.op = "remove_implant"
    /\ last.ret.tag = "Ok"
    /\ last.args.implant_record_id = 1
    /\ Inactive(1)
    /\ GetVec(patientImplants, implantRecord[1].patient_id) = <<1, 2>>
    /\ GetVec(deviceImplants, implantRecord[1].device_id) = <<1, 2>>
    /\ Len(GetVec(performanceReports, 1)) = 1

(***************************************************************************)
(* C17.  The secondary indices agree with the primary records.  In every   *)
(* reachable state the implant index of patient p is the ascending list of *)
(* the identifiers of the stored implants whose patient is p, the implant  *)
(* index of device d is the ascending list of the identifiers of the       *)
(* stored implants whose device is d, and recall r occurs in the recall    *)
(* index of device d if and only if d is in r's device list.               *)
(***************************************************************************)
ImplantIdsIssued == [i \in 1..implantCounter |-> i]
ImplantIdsOfPatient(p) ==
    LET OfPatient(i) == implantRecord[i].patient_id = p
    IN  SelectSeq(ImplantIdsIssued, OfPatient)
ImplantIdsOfDevice(d) ==
    LET OfDevice(i) == implantRecord[i].device_id = d
    IN  SelectSeq(ImplantIdsIssued, OfDevice)

C17_IndicesAgreeWithRecords ==
    /\ DOMAIN patientImplants \subseteq Patients
    /\ DOMAIN deviceImplants \subseteq DeviceIds
    /\ DOMAIN deviceRecalls \subseteq DeviceIds
    /\ \A p \in Patients : GetVec(patientImplants, p) = ImplantIdsOfPatient(p)
    /\ \A d \in DeviceIds : GetVec(deviceImplants, d) = ImplantIdsOfDevice(d)
    /\ \A d \in DeviceIds :
           /\ Range(GetVec(deviceRecalls, d)) \subseteq DOMAIN recallInfo
           /\ \A r \in DOMAIN recallInfo :
                  r \in Range(GetVec(deviceRecalls, d)) <=> d \in Range(recallInfo[r].device_ids)

\* Patient GA holds implant 1 of device 1 and implant 2 of device 2; recall 1
\* lists device 2 alone.
C17_Witness ==
    /\ GetVec(patientImplants, "GA") = <<1, 2>>
    /\ GetVec(deviceImplants, 1) = <<1>>
    /\ GetVec(deviceImplants, 2) = <<2>>
    /\ recallCounter = 1
    /\ recallInfo[1].device_ids = <<2>>
    /\ GetVec(deviceRecalls, 2) = <<1>>
    /\ GetVec(deviceRecalls, 1) = <<>>

(***************************************************************************)
(* C18.  The reads get_patient_implants, check_device_recalls and          *)
(* notify_affected_patients never change state: across every step of one   *)
(* of them, successful or failing, every counter, record and index         *)
(* sequence is unchanged.  The value a read returns is the value of its    *)
(* result function on the arguments in the state of the call, which is     *)
(* also its value in the state after the call: the same read repeated      *)
(* there returns the same result.                                          *)
(***************************************************************************)
ReadOps == {"get_patient_implants", "check_device_recalls", "notify_affected_patients"}

C18_ReadsChangeNothing ==
    /\ last.op \in ReadOps => store = OldStore
    /\ last.op = "notify_affected_patients" =>
           \A r \in RecallIds, t \in NotificationDates :
               last.args = [recall_id |-> r, notification_date |-> t] =>
                   last.ret = NotifyResult(r, t)
    /\ last.op = "check_device_recalls" =>
           \A d \in DeviceIds :
               last.args = [device_id |-> d] =>
                   last.ret = DeviceRecallsResult(d)
    /\ last.op = "get_patient_implants" =>
           \A p \in Patients, q \in Address, a \in BOOLEAN :
               last.args = [patient_id |-> p, requester |-> q, active_only |-> a] =>
                   last.ret = PatientImplantsResult(p, q, a, last.auth)

\* notify_affected_patients has just failed on the unknown recall 2 while
\* recall 1, an implant and no index of patient GB are stored.
C18_Witness ==
    /\ last.op = "notify_affected_patients"
    /\ last.ret = RecordNotFound
    /\ last.args.recall_id = 2
    /\ recallCounter = 1
    /\ implantCounter = 1
    /\ DOMAIN patientImplants = {"GA"}

(***************************************************************************)
(* C19.  Identity gating.  A step of implant_device, prescribe_dme or      *)
(* remove_implant invoked without the proof of the provider it names, of   *)
(* record_device_maintenance without the proof of the performer, of        *)
(* issue_device_recall without the proof of the manufacturer, of           *)
(* track_device_performance without the proof of the patient it names, or  *)
(* of get_patient_implants without the proof of the requester, aborts and  *)
(* changes nothing; with that proof the invocation is not aborted, and     *)
(* get_patient_implants returns a result.  register_device,                *)
(* notify_affected_patients and check_device_recalls demand no proof: they *)
(* are never aborted, register_device and check_device_recalls always      *)
(* succeed and notify_affected_patients succeeds on every stored recall.   *)
(***************************************************************************)
Aborted == last'.ret = AuthTrap /\ UNCHANGED store
Gated(invoked, identity, proven) ==
    \/ IF identity \in proven THEN last'.ret # AuthTrap ELSE Aborted
    \/ ~invoked
UngatedOps == {"register_device", "notify_affected_patients", "check_device_recalls"}

C19_IdentityGating ==
    [][/\ last'.op = "implant_device" =>
              \A patient_id \in {last'.args.patient_id}, device_id \in {last'.args.device_id}, provider_id \in Providers :
                  \A proven \in Proofs({patient_id, provider_id}) :
                      Gated(InvokeImplantDevice(patient_id, device_id, provider_id, proven), provider_id, proven)
       /\ last'.op = "prescribe_dme" =>
              \A patient_id \in Patients, provider_id \in Providers, device_id \in {last'.args.device_id} :
                  \A proven \in Proofs({patient_id, provider_id}) :
                      Gated(InvokePrescribeDme(patient_id, provider_id, device_id, proven), provider_id, proven)
       /\ last'.op = "remove_implant" =>
              \A implant_record_id \in {last'.args.implant_record_id}, provider_id \in {last'.args.provider_id}, removal \in {<<last'.args.removal_date, last'.args.removal_reason, last'.args.explant_analysis_hash>>} :
                  \A proven \in Proofs({provider_id}) :
                      Gated(InvokeRemoveImplant(implant_record_id, provider_id, removal, proven), provider_id, proven)
       /\ last'.op = "record_device_maintenance" =>
              \A implant_record_id \in {last'.args.implant_record_id}, performed_by \in Providers :
                  \A proven \in Proofs({performed_by}) :
                      Gated(InvokeRecordDeviceMaintenance(implant_record_id, performed_by, proven), performed_by, proven)
       /\ last'.op = "issue_device_recall" =>
              \A manufacturer \in Manufacturers, device_ids \in {last'.args.device_ids} :
                  \A proven \in Proofs({manufacturer}) :
                      Gated(InvokeIssueDeviceRecall(manufacturer, device_ids, proven), manufacturer, proven)
       /\ last'.op = "track_device_performance" =>
              \A implant_record_id \in {last'.args.implant_record_id}, patient_id \in {last'.args.patient_id}, complications \in Complications :
                  \A proven \in Proofs({patient_id}) :
                      Gated(InvokeTrackDevicePerformance(implant_record_id, patient_id, complications, proven), patient_id, proven)
       /\ last'.op = "get_patient_implants" =>
              \A patient_id \in {last'.args.patient_id}, requester \in {last'.args.requester}, active_only \in {last'.args.active_only} :
                  \A proven \in Proofs({patient_id, requester}) :
                      /\ Gated(InvokeGetPatientImplants(patient_id, requester, active_only, proven), requester, proven)
                      /\ \/ requester \notin proven
                         \/ last'.ret.tag = "Ok"
                         \/ ~InvokeGetPatientImplants(patient_id, requester, active_only, proven)
       /\ last'.ret.tag # "Ok" => UNCHANGED store
       /\ last'.op \in UngatedOps => last'.ret # AuthTrap
       /\ last'.op \in {"register_device", "check_device_recalls"} => last'.ret.tag = "Ok"
       /\ (last'.op = "notify_affected_patients" /\ Has(recallInfo, last'.args.recall_id))
          => last'.ret.tag = "Ok"]_vars

\* implant_device has just been aborted for lack of the provider's proof,
\* on a registered device, after one implant was stored.
C19_Witness ==
    /\ last.op = "implant_device"
    /\ last.ret = AuthTrap
    /\ ~last.auth
    /\ Has(deviceRecord, last.args.device_id)
    /\ implantCounter = 1

(***************************************************************************)
(* C20.  A successful implant_device(patient, device, provider, ...)       *)
(* stores, under the identifier it returns, a new implant of that patient  *)
(* and device that is active, has no removal date, reason or explant hash  *)
(* and an empty maintenance history, and appends the identifier as the     *)
(* last entry of the patient's and of the device's implant index.  It      *)
(* advances the implant counter and changes nothing else: every other      *)
(* implant record, every other index sequence, the other counters and      *)
(* records, the recall index and the performance reports are as before.    *)
(***************************************************************************)
C20_ImplantStoresActiveRecord ==
       (last.op = "implant_device" /\ last.ret.tag = "Ok") =>
           LET id == last.ret.val
               p  == last.args.patient_id
               d  == last.args.device_id
           IN  /\ id = before.implantCounter + 1
               /\ implantCounter = id
               /\ id \notin DOMAIN before.implantRecord
               /\ DOMAIN implantRecord = DOMAIN before.implantRecord \cup {id}
               /\ \A k \in DOMAIN before.implantRecord : implantRecord[k] = before.implantRecord[k]
               /\ implantRecord[id].implant_record_id = id
               /\ implantRecord[id].patient_id = p
               /\ implantRecord[id].device_id = d
               /\ implantRecord[id].implanting_provider \in Providers
               /\ implantRecord[id].is_active
               /\ implantRecord[id].removal_date = None
               /\ implantRecord[id].removal_reason = None
               /\ implantRecord[id].explant_analysis_hash = None
               /\ implantRecord[id].maintenance_history = <<>>
               /\ DOMAIN patientImplants = DOMAIN before.patientImplants \cup {p}
               /\ patientImplants[p] = Append(GetVec(before.patientImplants, p), id)
               /\ \A q \in DOMAIN before.patientImplants \ {p} : patientImplants[q] = before.patientImplants[q]
               /\ DOMAIN deviceImplants = DOMAIN before.deviceImplants \cup {d}
               /\ deviceImplants[d] = Append(GetVec(before.deviceImplants, d), id)
               /\ \A e \in DOMAIN before.deviceImplants \ {d} : deviceImplants[e] = before.deviceImplants[e]
               /\ <<deviceCounter, dmeCounter, recallCounter, maintenanceCounter>> = <<before.deviceCounter, before.dmeCounter, before.recallCounter, before.maintenanceCounter>>
               /\ <<deviceRecord, dmeRecord, recallInfo, maintenanceRecord>> = <<before.deviceRecord, before.dmeRecord, before.recallInfo, before.maintenanceRecord>>
               /\ <<deviceRecalls, performanceReports>> = <<before.deviceRecalls, before.performanceReports>>

\* implant_device has just stored implant 2 for the patient and the device
\* of implant 1, which was removed before; a recall of the device is stored.
C20_Witness ==
    /\ last.op = "implant_device"
    /\ last.ret = Ok(2)
    /\ GetVec(patientImplants, last.args.patient_id) = <<1, 2>>
    /\ GetVec(deviceImplants, last.args.device_id) = <<1, 2>>
    /\ Inactive(1)
    /\ implantRecord[2].is_active
    /\ recallCounter = 1

(***************************************************************************)
(* C21.  issue_device_recall never validates its device identifiers: every *)
(* invocation with the manufacturer's identity proven succeeds, whatever   *)
(* the device list, also when it names a device that is not registered,    *)
(* and stores the recall under the identifier it returns; no invocation    *)
(* of issue_device_recall returns RecordNotFound.                          *)
(***************************************************************************)
C21_RecallNeverValidatesDevices ==
    last.op = "issue_device_recall" =>
        /\ last.ret # RecordNotFound
        /\ last.ret.tag \in {"Ok", "Trap"}
        /\ last.auth =>
               /\ last.ret = Ok(recallCounter)
               /\ Has(recallInfo, recallCounter)
               /\ recallInfo[recallCounter].device_ids = last.args.device_ids

\* issue_device_recall has just succeeded on a list whose two devices are
\* both unregistered.
C21_Witness ==
    /\ last.op = "issue_device_recall"
    /\ last.ret.tag = "Ok"
    /\ last.args.device_ids = <<2, 1>>
    /\ deviceCounter = 0
    /\ DOMAIN deviceRecalls = {1, 2}

(***************************************************************************)
(* C22.  A successful issue_device_recall stores, under the identifier it  *)
(* returns, a recall record that embeds the given device list unchanged,   *)
(* and appends that identifier to the recall index of every listed device  *)
(* (once per entry of the list) and of no other device.  Earlier recall    *)
(* records, device records, implant records, both implant indices and all  *)
(* other records, counters and report sequences are unchanged.             *)
(***************************************************************************)
C22_RecallIndexesListedDevices ==
       (last.op = "issue_device_recall" /\ last.ret.tag = "Ok") =>
           LET id == last.ret.val
               ds == last.args.device_ids
           IN  /\ id = before.recallCounter + 1
               /\ recallCounter = id
               /\ DOMAIN recallInfo = DOMAIN before.recallInfo \cup {id}
               /\ id \notin DOMAIN before.recallInfo
               /\ \A r \in DOMAIN before.recallInfo : recallInfo[r] = before.recallInfo[r]
               /\ recallInfo[id].recall_id = id
               /\ recallInfo[id].device_ids = ds
               /\ DOMAIN deviceRecalls = DOMAIN before.deviceRecalls \cup Range(ds)
               /\ \A d \in Range(ds) :
                      /\ deviceRecalls[d] = GetVec(before.deviceRecalls, d) \o Copies(id, Occurrences(ds, d))
                      /\ deviceRecalls[d][Len(deviceRecalls[d])] = id
               /\ \A d \in DOMAIN before.deviceRecalls \ Range(ds) : deviceRecalls[d] = before.deviceRecalls[d]
               /\ <<deviceRecord, implantRecord, patientImplants, deviceImplants>> = <<before.deviceRecord, before.implantRecord, before.patientImplants, before.deviceImplants>>
               /\ <<deviceCounter, implantCounter, dmeCounter, maintenanceCounter>> = <<before.deviceCounter, before.implantCounter, before.dmeCounter, before.maintenanceCounter>>
               /\ <<dmeRecord, maintenanceRecord, performanceReports>> = <<before.dmeRecord, before.maintenanceRecord, before.performanceReports>>

\* The second recall has just been issued for device 2 alone, after a recall
\* of devices 1 and 2; device 1 is registered and carries an implant.
C22_Witness ==
    /\ last.op = "issue_device_recall"
    /\ last.ret = Ok(2)
    /\ last.args.device_ids = <<2>>
    /\ recallInfo[1].device_ids = <<1, 2>>
    /\ GetVec(deviceRecalls, 1) = <<1>>
    /\ GetVec(deviceRecalls, 2) = <<1, 2>>
    /\ GetVec(deviceImplants, 1) = <<1>>

(***************************************************************************)
(* C23.  As claimed: every stored recall record spans one or more devices, *)
(* that is, in every reachable state no stored recall has an empty device  *)
(* list.                                                                   *)
(***************************************************************************)
C23_RecallSpansADevice ==
    \A r \in DOMAIN recallInfo : recallInfo[r].device_ids # <<>>

(***************************************************************************)
(* C24.  Stored records are write-once.  Across every step each stored     *)
(* device, prescription, recall and maintenance-event record is still      *)
(* stored and identical; each stored implant record is still stored and    *)
(* differs at most in its active flag, its three removal fields and its    *)
(* maintenance history: identifier, patient, device, implant date,         *)
(* location, implanting provider and surgical-notes hash never change.     *)
(***************************************************************************)
WriteOnce(old, new) == \A k \in DOMAIN old : k \in DOMAIN new /\ new[k] = old[k]
ImplantIdentity(record) ==
    <<record.implant_record_id, record.patient_id, record.device_id, record.implant_date, record.implant_location, record.implanting_provider, record.surgical_notes_hash>>

C24_RecordsWriteOnce ==
       /\ WriteOnce(before.deviceRecord, deviceRecord)
       /\ WriteOnce(before.dmeRecord, dmeRecord)
       /\ WriteOnce(before.recallInfo, recallInfo)
       /\ WriteOnce(before.maintenanceRecord, maintenanceRecord)
       /\ \A i \in DOMAIN before.implantRecord :
              /\ i \in DOMAIN implantRecord
              /\ DOMAIN implantRecord[i] = DOMAIN before.implantRecord[i]
              /\ ImplantIdentity(implantRecord[i]) = ImplantIdentity(before.implantRecord[i])

\* remove_implant has just rewritten implant 1, which has a maintenance
\* event, while a device and a recall are stored.
C24_Witness ==
    /\ last.op = "remove_implant"
    /\ last.ret.tag = "Ok"
    /\ last.args.implant_record_id = 1
    /\ implantRecord[1].maintenance_history = <<1>>
    /\ Has(maintenanceRecord, 1)
    /\ Has(recallInfo, 1)
    /\ Has(deviceRecord, 1)

(***************************************************************************)
(* C25.  Every stored maintenance event is referenced by exactly one       *)
(* implant's history: in every reachable state each maintenance-event      *)
(* identifier 1..counter occurs exactly once over the maintenance          *)
(* histories of all implants, namely in the history of the implant that    *)
(* the event's implant_record_id names, and the histories hold nothing     *)
(* but stored events.                                                      *)
(***************************************************************************)
RECURSIVE HistoryOccurrences(_, _)
HistoryOccurrences(m, ids) ==
    IF ids = {} THEN 0
    ELSE LET i == CHOOSE x \in ids : TRUE
         IN  Occurrences(implantRecord[i].maintenance_history, m) + HistoryOccurrences(m, ids \ {i})

C25_EventInOneHistory ==
    /\ \A m \in 1..maintenanceCounter :
           /\ Has(maintenanceRecord, m)
           /\ Has(implantRecord, maintenanceRecord[m].implant_record_id)
           /\ Occurrences(implantRecord[maintenanceRecord[m].implant_record_id].maintenance_history, m) = 1
           /\ HistoryOccurrences(m, DOMAIN implantRecord) = 1
    /\ \A i \in DOMAIN implantRecord :
           Range(implantRecord[i].maintenance_history) \subseteq 1..maintenanceCounter

\* Event 1 belongs to implant 2 and event 2 to implant 1.
C25_Witness ==
    /\ maintenanceCounter = 2
    /\ maintenanceRecord[1].implant_record_id = 2
    /\ maintenanceRecord[2].implant_record_id = 1
    /\ implantRecord[1].maintenance_history = <<2>>
    /\ implantRecord[2].maintenance_history = <<1>>

(***************************************************************************)
(* C26.  A successful track_device_performance appends exactly one report, *)
(* carrying the implant identifier of the call, as the last element of     *)
(* that implant's performance-report sequence, also when an equal report   *)
(* is already stored there (nothing is deduplicated).  The report          *)
(* sequences of other implants, every implant record, every counter,       *)
(* every other record and the three indices are unchanged.                 *)
(***************************************************************************)
C26_TrackAppendsOneReport ==
       (last.op = "track_device_performance" /\ last.ret.tag = "Ok") =>
           LET i   == last.args.implant_record_id
               old == GetVec(before.performanceReports, i)
           IN  /\ Has(before.implantRecord, i)
               /\ DOMAIN performanceReports = DOMAIN before.performanceReports \cup {i}
               /\ Len(performanceReports[i]) = Len(old) + 1
               /\ SubSeq(performanceReports[i], 1, Len(old)) = old
               /\ performanceReports[i][Len(old) + 1].implant_record_id = i
               /\ performanceReports[i][Len(old) + 1].patient_id \in Patients
               /\ \A k \in DOMAIN before.performanceReports \ {i} : performanceReports[k] = before.performanceReports[k]
               /\ <<counters, records>> = <<OldCounters, OldRecords>>
               /\ <<patientImplants, deviceImplants, deviceRecalls>> = <<before.patientImplants, before.deviceImplants, before.deviceRecalls>>

\* The same report has just been stored a second time for implant 1.
C26_Witness ==
    /\ last.op = "track_device_performance"
    /\ last.ret.tag = "Ok"
    /\ last.args.implant_record_id = 1
    /\ Len(GetVec(performanceReports, 1)) = 2
    /\ performanceReports[1][1] = performanceReports[1][2]

(***************************************************************************)
(* C27.  prescribe_dme has no failure mode besides the identity proof and  *)
(* touches no index.  Every invocation with the provider's identity proven *)
(* succeeds, whether or not its device identifier is registered; a         *)
(* successful invocation stores one new prescription under the identifier  *)
(* it returns, advances the prescription counter and changes nothing else: *)
(* earlier prescriptions, device, implant, recall and maintenance records, *)
(* the other counters, the three indices and the reports are unchanged.    *)
(***************************************************************************)
C27_PrescribeTouchesNoIndex ==
    /\   (last.op = "prescribe_dme" =>
              /\ last.ret.tag \in {"Ok", "Trap"}
              /\ last.auth => last.ret = Ok(dmeCounter))
    /\    (last.op = "prescribe_dme" /\ last.ret.tag = "Ok") =>
              LET id == last.ret.val
              IN  /\ id = before.dmeCounter + 1
                  /\ dmeCounter = id
                  /\ DOMAIN dmeRecord = DOMAIN before.dmeRecord \cup {id}
                  /\ id \notin DOMAIN before.dmeRecord
                  /\ \A k \in DOMAIN before.dmeRecord : dmeRecord[k] = before.dmeRecord[k]
                  /\ dmeRecord[id].prescription_id = id
                  /\ dmeRecord[id].device_id = last.args.device_id
                  /\ <<deviceCounter, implantCounter, recallCounter, maintenanceCounter>> = <<before.deviceCounter, before.implantCounter, before.recallCounter, before.maintenanceCounter>>
                  /\ <<deviceRecord, implantRecord, recallInfo, maintenanceRecord>> = <<before.deviceRecord, before.implantRecord, before.recallInfo, before.maintenanceRecord>>
                  /\ indices = OldIndices

\* prescribe_dme has just succeeded for device 2, which is not registered,
\* while device 1, an implant of it and a recall are stored.
C27_Witness ==
    /\ last.op = "prescribe_dme"
    /\ last.ret = Ok(1)
    /\ last.args.device_id = 2
    /\ deviceCounter = 1
    /\ implantCounter = 1
    /\ recallCounter = 1

(***************************************************************************)
(* C29.  The result of get_patient_implants does not depend on which       *)
(* identity is the requester: in every state, for each patient and each    *)
(* value of active_only, the proven call returns the same sequence for     *)
(* every requester, and the value an invocation returned is the value      *)
(* every other proven requester would get, also for a requester that is    *)
(* neither the patient nor a provider of any of the patient's implants.    *)
(***************************************************************************)
C29_RequesterIndependence ==
    /\ \A p \in Patients, a \in BOOLEAN, q1 \in Address, q2 \in Address :
           PatientImplantsResult(p, q1, a, TRUE) = PatientImplantsResult(p, q2, a, TRUE)
    /\ (last.op = "get_patient_implants" /\ last.auth) =>
           \A q \in Address :
               last.ret = PatientImplantsResult(last.args.patient_id, q, last.args.active_only, TRUE)

\* Requester GB, who is not the patient and implanted nothing, has just
\* been given the implants of patient GA.
C29_Witness ==
    /\ last.op = "get_patient_implants"
    /\ last.auth
    /\ last.args.patient_id = "GA"
    /\ last.args.requester = "GB"
    /\ last.ret.tag = "Ok"
    /\ Len(last.ret.val) >= 1
    /\ \A k \in 1..Len(last.ret.val) :
           /\ last.ret.val[k].patient_id = "GA"
           /\ last.ret.val[k].implanting_provider # "GB"

(***************************************************************************)
(* C30.  The notification timestamp has no effect on                       *)
(* notify_affected_patients: in every state two calls with the same recall *)
(* identifier and different timestamps return the same value (the same     *)
(* sequence, or RecordNotFound for both), the value an invocation returned *)
(* is the one every other timestamp would give, and no invocation changes  *)
(* the stored state.                                                       *)
(***************************************************************************)
C30_TimestampHasNoEffect ==
    /\   (\A r \in RecallIds, t1 \in NotificationDates, t2 \in NotificationDates :
              NotifyResult(r, t1) = NotifyResult(r, t2))
    /\   (last.op = "notify_affected_patients" =>
              \A t \in NotificationDates :
                  last.ret = NotifyResult(last.args.recall_id, t))
    /\    last.op = "notify_affected_patients" => store = OldStore

\* notify_affected_patients has just returned a patient for recall 1 with
\* timestamp 31, and has nothing else to return with timestamp 32.
C30_Witness ==
    /\ last.op = "notify_affected_patients"
    /\ last.args = [recall_id |-> 1, notification_date |-> 31]
    /\ last.ret.tag = "Ok"
    /\ Len(last.ret.val) >= 1
    /\ NotifyResult(1, 32) = last.ret

(***************************************************************************)
(* C35.  record_device_maintenance and track_device_performance do not     *)
(* require an active implant.  On an implant that has been removed, every  *)
(* invocation with the identity proven succeeds: the maintenance event's   *)
(* identifier is appended to the implant's history, or the report to its   *)
(* report sequence, and the implant stays inactive with its removal date,  *)
(* removal reason and explant analysis unchanged.                          *)
(***************************************************************************)
C35_RemovedImplantStillServiced ==
       /\ (/\ last.op = "record_device_maintenance"
           /\ last.auth
           /\ Has(before.implantRecord, last.args.implant_record_id)
           /\ ~before.implantRecord[last.args.implant_record_id].is_active) =>
              LET i == last.args.implant_record_id
              IN  /\ last.ret.tag = "Ok"
                  /\ maintenanceCounter = before.maintenanceCounter + 1
                  /\ implantRecord[i].maintenance_history = Append(before.implantRecord[i].maintenance_history, maintenanceCounter)
                  /\ ~implantRecord[i].is_active
                  /\ implantRecord[i].removal_date = before.implantRecord[i].removal_date
                  /\ implantRecord[i].removal_reason = before.implantRecord[i].removal_reason
                  /\ implantRecord[i].explant_analysis_hash = before.implantRecord[i].explant_analysis_hash
       /\ (/\ last.op = "track_device_performance"
           /\ last.auth
           /\ Has(before.implantRecord, last.args.implant_record_id)
           /\ ~before.implantRecord[last.args.implant_record_id].is_active) =>
              LET i == last.args.implant_record_id
              IN  /\ last.ret.tag = "Ok"
                  /\ Len(performanceReports[i]) = Len(GetVec(before.performanceReports, i)) + 1
                  /\ performanceReports[i][Len(performanceReports[i])].implant_record_id = i
                  /\ implantRecord = before.implantRecord

\* A maintenance event has just been recorded on implant 1, which is removed
\* and carries a report in its report sequence.
C35_Witness ==
    /\ last.op = "record_device_maintenance"
    /\ last.ret.tag = "Ok"
    /\ last.args.implant_record_id = 1
    /\ ~implantRecord[1].is_active
    /\ implantRecord[1].removal_date # None
    /\ implantRecord[1].maintenance_history = <<maintenanceCounter>>
    /\ Len(GetVec(performanceReports, 1)) = 1

(***************************************************************************)
(* C36.  The proven identity is not bound to the record it acts on.        *)
(* remove_implant succeeds on an active implant for every proven provider  *)
(* identity, also one that is not the implanting provider, and             *)
(* track_device_performance succeeds on a stored implant for every proven  *)
(* patient identity, also one that is not the implant's patient; the       *)
(* result and the stored state are the same whether or not the identities  *)
(* match.                                                                  *)
(***************************************************************************)
C36_IdentityNotBoundToRecord ==
       /\ (/\ last.op = "remove_implant"
           /\ last.auth
           /\ Has(before.implantRecord, last.args.implant_record_id)
           /\ before.implantRecord[last.args.implant_record_id].is_active) =>
              LET i == last.args.implant_record_id
              IN  /\ last.ret = Ok(<<>>)
                  /\ implantRecord = Set(before.implantRecord, i, RemovedRecord(before.implantRecord[i], last.args.removal_date, last.args.removal_reason, last.args.explant_analysis_hash))
                  /\ implantRecord[i].implanting_provider = before.implantRecord[i].implanting_provider
                  /\ <<counters, deviceRecord, dmeRecord, recallInfo, maintenanceRecord, indices>> = <<OldCounters, before.deviceRecord, before.dmeRecord, before.recallInfo, before.maintenanceRecord, OldIndices>>
       /\ (/\ last.op = "track_device_performance"
           /\ last.auth
           /\ Has(before.implantRecord, last.args.implant_record_id)) =>
              LET i == last.args.implant_record_id
                  n == Len(GetVec(before.performanceReports, i)) + 1
              IN  /\ last.ret = Ok(<<>>)
                  /\ Len(performanceReports[i]) = n
                  /\ performanceReports[i][n].patient_id = last.args.patient_id
                  /\ performanceReports[i][n].implant_record_id = i
                  /\ <<counters, records, patientImplants, deviceImplants, deviceRecalls>> = <<OldCounters, OldRecords, before.patientImplants, before.deviceImplants, before.deviceRecalls>>

\* Implant 1 has just been removed on the proof of an identity that is not
\* its implanting provider, and holds a report filed by an identity that is
\* not its patient.
C36_Witness ==
    /\ last.op = "remove_implant"
    /\ last.ret.tag = "Ok"
    /\ last.args.implant_record_id = 1
    /\ last.args.provider_id # implantRecord[1].implanting_provider
    /\ Len(GetVec(performanceReports, 1)) = 1
    /\ performanceReports[1][1].patient_id # implantRecord[1].patient_id

(***************************************************************************)
(* C37.  A recall issued for a device identifier that is not yet           *)
(* registered attaches to the device that later receives the identifier.   *)
(* register_device returning d leaves the recall index of d as the earlier *)
(* recalls wrote it, so check_device_recalls(d) returns those recalls from *)
(* then on; and in every state, for a registered device d that a stored    *)
(* recall lists, check_device_recalls(d) returns that recall and           *)
(* notify_affected_patients on it returns the patient of every active      *)
(* implant made with d.                                                    *)
(***************************************************************************)
C37_ForwardRecallAttaches ==
    /\ [](\A r \in DOMAIN recallInfo, d \in DOMAIN deviceRecord :
              d \in Range(recallInfo[r].device_ids) =>
                  /\ recallInfo[r] \in Range(DeviceRecallsResult(d).val)
                  /\ \A t \in NotificationDates :
                         /\ NotifyResult(r, t).tag = "Ok"
                         /\ \A i \in ActiveImplantsOfDevice(d) :
                                implantRecord[i].patient_id \in Range(NotifyResult(r, t).val))
    /\ [][\A d \in DeviceIds :
              (last'.op = "register_device" /\ last'.ret = Ok(d)) =>
                  /\ ~Has(deviceRecord, d)
                  /\ GetVec(deviceRecalls, d)' = GetVec(deviceRecalls, d)
                  /\ DeviceRecallsResult(d)' = DeviceRecallsResult(d)
                  /\ \A r \in DOMAIN recallInfo :
                         d \in Range(recallInfo[r].device_ids) =>
                             recallInfo[r] \in Range((DeviceRecallsResult(d)').val)]_vars

\* register_device has just returned 2 while recall 1, issued for device 2,
\* is already stored: check_device_recalls(2) returns it.
C37_Witness ==
    /\ last.op = "register_device"
    /\ last.ret = Ok(2)
    /\ Has(recallInfo, 1)
    /\ recallInfo[1].device_ids = <<2>>
    /\ DeviceRecallsResult(2) = Ok(<<recallInfo[1]>>)

(***************************************************************************)
(* C38.  issue_device_recall does not deduplicate its device list: a       *)
(* recall whose list names device d m times is m times in the recall index *)
(* of d, and check_device_recalls(d) returns its record m times.           *)
(***************************************************************************)
C38_RepeatedDeviceIndexedRepeatedly ==
    /\ \A d \in DeviceIds, r \in DOMAIN recallInfo :
           /\ Occurrences(GetVec(deviceRecalls, d), r) = Occurrences(recallInfo[r].device_ids, d)
           /\ Occurrences(DeviceRecallsResult(d).val, recallInfo[r]) = Occurrences(recallInfo[r].device_ids, d)
    /\ last.op = "check_device_recalls" =>
           \A r \in DOMAIN recallInfo :
               Occurrences(last.ret.val, recallInfo[r]) = Occurrences(recallInfo[r].device_ids, last.args.device_id)

\* Recall 1 names device 1 twice; check_device_recalls(1) has just returned
\* its record twice.
C38_Witness ==
    /\ last.op = "check_device_recalls"
    /\ last.args.device_id = 1
    /\ Has(recallInfo, 1)
    /\ recallInfo[1].device_ids = <<1, 1>>
    /\ deviceRecalls[1] = <<1, 1>>
    /\ last.ret = Ok(<<recallInfo[1], recallInfo[1]>>)

(***************************************************************************)
(* C39.  The identity proof is checked before the existence and state      *)
(* checks.  An invocation of implant_device, record_device_maintenance,    *)
(* remove_implant or track_device_performance whose identity proof fails   *)
(* ends with the authorization failure, also when the device or implant it *)
(* names is unknown or the implant is already inactive, and never with     *)
(* RecordNotFound or DeviceNotActive.  No operation returns the error      *)
(* value NotAuthorized: the only error values returned are RecordNotFound  *)
(* and DeviceNotActive.                                                    *)
(***************************************************************************)
ProofFirstOps == {"implant_device", "record_device_maintenance", "remove_implant", "track_device_performance"}

C39_ProofCheckedFirst ==
    /\ (last.op \in ProofFirstOps /\ ~last.auth) => last.ret = AuthTrap
    /\ last.ret # Err("NotAuthorized")
    /\ last.ret.tag = "Err" => last.ret \in {RecordNotFound, DeviceNotActive}

\* remove_implant without the proof has just been aborted on implant 1,
\* which is already removed, while implant 2 and device 2 do not exist.
C39_Witness ==
    /\ last.op = "remove_implant"
    /\ ~last.auth
    /\ last.ret = AuthTrap
    /\ last.args.implant_record_id = 1
    /\ Has(implantRecord, 1)
    /\ ~implantRecord[1].is_active
    /\ ~Has(implantRecord, 2)
    /\ ~Has(deviceRecord, 2)

(***************************************************************************)
(* Vocabulary of the analytics properties.                                 *)
(***************************************************************************)
\* The recorded metrics a query is about.
Matching(metric_type, start_time, end_time, category) ==
    {id \in DOMAIN metric :
        /\ metric[id].metric_type = metric_type
        /\ start_time <= metric[id].timestamp
        /\ metric[id].timestamp <= end_time
        /\ category # None => metric[id].category = category[1]}
RECURSIVE SumOfValues(_)
SumOfValues(S) ==
    IF S = {} THEN 0
    ELSE LET id == CHOOSE x \in S : TRUE
         IN  metric[id].value + SumOfValues(S \ {id})
IsLeastValue(v, S) == (\E id \in S : metric[id].value = v) /\ (\A id \in S : v <= metric[id].value)
IsGreatestValue(v, S) == (\E id \in S : metric[id].value = v) /\ (\A id \in S : v >= metric[id].value)
\* q is sum divided by count with the fraction dropped: the remainder has
\* the sign of sum and is smaller than count.
IsTruncatedQuotient(q, sum, count) ==
    LET remainder == sum - q * count
    IN  IF sum >= 0 THEN 0 <= remainder /\ remainder < count
        ELSE -count < remainder /\ remainder <= 0
IsErr(res, e) == res.tag = "Err" /\ res.val = e
AggregatesMatching(res, q) ==
    LET M == Matching(q.metric_type, q.start_time, q.end_time, q.category)
    IN  res.tag = "Ok" =>
            /\ res.val.metric_type = q.metric_type
            /\ res.val.count = Cardinality(M)
            /\ res.val.sum = SumOfValues(M)
            /\ IsLeastValue(res.val.min, M)
            /\ IsGreatestValue(res.val.max, M)
            /\ IsTruncatedQuotient(res.val.average, res.val.sum, res.val.count)
Queries == [metric_type : MetricTypes, start_time : Timestamps, end_time : Timestamps, category : CategoryFilters]

(***************************************************************************)
(* C31.  get_statistics(type, start, end, category), when it succeeds,     *)
(* aggregates exactly the recorded metrics of that type whose timestamp t  *)
(* satisfies start <= t <= end and, when a category is given, whose        *)
(* category is the given one: count is their number, sum their sum, min    *)
(* and max their least and greatest value, and average is sum divided by   *)
(* count truncated toward zero.  Metrics of other types do not contribute. *)
(***************************************************************************)
C31_StatisticsAggregateMatching ==
    /\ \A q \in Queries :
           AggregatesMatching(StatisticsResult(q.metric_type, q.start_time, q.end_time, q.category), q)
    /\ last.op = "get_statistics" => AggregatesMatching(last.ret, last.args)

\* get_statistics has just aggregated two of the three recorded metrics,
\* both at the one timestamp that is the start and the end of the range:
\* their sum is -1 and the average is 0.
C31_Witness ==
    /\ last.op = "get_statistics"
    /\ last.ret.tag = "Ok"
    /\ metricCounter = 3
    /\ last.args.start_time = last.args.end_time
    /\ last.ret.val.count = 2
    /\ last.ret.val.sum = -1
    /\ last.ret.val.average = 0
    /\ last.ret.val.min = -3
    /\ last.ret.val.max = 2

(***************************************************************************)
(* C32.  get_statistics fails with InvalidTimeRange whenever               *)
(* start_time > end_time, whatever is stored; otherwise it fails with      *)
(* NoDataFound exactly when no recorded metric matches the type, the time  *)
(* range and the category filter.  It never returns a Statistics value     *)
(* with count 0, and it fails in no other way.                             *)
(***************************************************************************)
FailsAsDocumented(res, q) ==
    LET M == Matching(q.metric_type, q.start_time, q.end_time, q.category)
    IN  /\ q.start_time > q.end_time => IsErr(res, "InvalidTimeRange")
        /\ q.start_time <= q.end_time => (IsErr(res, "NoDataFound") <=> M = {})
        /\ q.start_time <= q.end_time => (res.tag = "Ok" <=> M # {})
        /\ res.tag = "Ok" => res.val.count > 0

C32_StatisticsFailures ==
    /\ \A q \in Queries :
           FailsAsDocumented(StatisticsResult(q.metric_type, q.start_time, q.end_time, q.category), q)
    /\ last.op = "get_statistics" => FailsAsDocumented(last.ret, last.args)

\* get_statistics has just failed with InvalidTimeRange on a type of which
\* two metrics are recorded, one at each timestamp of the reversed range.
C32_Witness ==
    /\ last.op = "get_statistics"
    /\ last.args.start_time > last.args.end_time
    /\ IsErr(last.ret, "InvalidTimeRange")
    /\ \E a \in DOMAIN metric, b \in DOMAIN metric :
           /\ metric[a].metric_type = last.args.metric_type
           /\ metric[b].metric_type = last.args.metric_type
           /\ metric[a].timestamp = last.args.start_time
           /\ metric[b].timestamp = last.args.end_time

(***************************************************************************)
(* C33.  register_insurer for a wallet that is already registered fails    *)
(* (it panics when the wallet's identity is proven, and is aborted         *)
(* otherwise) and leaves the registry unchanged: the insurer's stored data *)
(* and its claims-reviewer list stay as they were.  No register_insurer    *)
(* invocation, for any wallet, replaces a record that exists.              *)
(***************************************************************************)
C33_NoSecondRegistration ==
       last.op = "register_insurer" =>
           /\ Has(before.insurer, last.args.wallet) =>
                  /\ last.ret.tag \in {"Panic", "Trap"}
                  /\ last.auth => last.ret = Panic("Insurer already registered")
                  /\ registry = OldRegistry
           /\ \A w \in DOMAIN before.insurer :
                  /\ insurer[w] = before.insurer[w]
                  /\ claimsReviewers[w] = before.claimsReviewers[w]

\* A second registration of IA, with other metadata, has just panicked; IA
\* keeps its metadata, its updated contact details and its reviewer.
C33_Witness ==
    /\ last.op = "register_insurer"
    /\ last.auth
    /\ last.ret = Panic("Insurer already registered")
    /\ last.args.wallet = "IA"
    /\ Has(insurer, "IA")
    /\ insurer["IA"].metadata # last.args.metadata
    /\ insurer["IA"].contact_details = "c1"
    /\ claimsReviewers["IA"] = <<"RA">>

(***************************************************************************)
(* C34.  In every reachable state no claims-reviewer list contains an      *)
(* address twice: add_claims_reviewer with the insurer's identity proven   *)
(* panics when the insurer is not registered or the reviewer is already in *)
(* the list, and leaves every list unchanged in both cases.                *)
(***************************************************************************)
C34_ReviewersListedOnce ==
    /\   (\A w \in DOMAIN claimsReviewers :
              \A a \in 1..Len(claimsReviewers[w]), b \in 1..Len(claimsReviewers[w]) :
                  claimsReviewers[w][a] = claimsReviewers[w][b] => a = b)
    /\    (last.op = "add_claims_reviewer" /\ last.auth) =>
              LET i == last.args.insurer_wallet
                  r == last.args.reviewer_wallet
              IN  /\ ~Has(before.insurer, i) =>
                         /\ last.ret = Panic("Insurer not registered")
                         /\ registry = OldRegistry
                  /\ (Has(before.insurer, i) /\ r \in Range(GetVec(before.claimsReviewers, i))) =>
                         /\ last.ret = Panic("Reviewer already authorized")
                         /\ registry = OldRegistry

\* Adding RA to the list of IA a second time has just panicked; RA is its
\* first of two reviewers.
C34_Witness ==
    /\ last.op = "add_claims_reviewer"
    /\ last.auth
    /\ last.ret = Panic("Reviewer already authorized")
    /\ last.args = [insurer_wallet |-> "IA", reviewer_wallet |-> "RA"]
    /\ claimsReviewers["IA"] = <<"RA", "RB">>

(***************************************************************************)
(* C40.  remove_claims_reviewer removes exactly the named reviewer and     *)
(* keeps the other reviewers in their relative order, and panics leaving   *)
(* the list unchanged when the reviewer is not in it.  Hence adding a      *)
(* reviewer to an insurer's list and then removing it restores the list,   *)
(* and is_authorized_reviewer(i, r) is true exactly when r is in           *)
(* get_claims_reviewers(i).                                                *)
(***************************************************************************)
Without(s, x) ==
    LET Other(y) == y # x
    IN  SelectSeq(s, Other)

C40_RemoveUndoesAdd ==
    /\   (\A i \in DOMAIN insurer, r \in ReviewerWallets :
              ~Listed(claimsReviewers[i], r) =>
                  NewReviewers(PushBack(claimsReviewers[i], r), r, 1, [new_reviewers |-> <<>>, found |-> FALSE])
                      = [new_reviewers |-> claimsReviewers[i], found |-> TRUE])
    /\   (\A i \in InsurerWallets, r \in ReviewerWallets :
              IsAuthorizedResult(i, r) <=> r \in Range(ClaimsReviewersResult(i)))
    /\   (last.op = "is_authorized_reviewer" =>
              last.ret = Ok(last.args.reviewer_wallet \in Range(ClaimsReviewersResult(last.args.insurer_wallet))))
    /\    (last.op = "remove_claims_reviewer" /\ last.auth /\ Has(before.claimsReviewers, last.args.insurer_wallet)) =>
              LET i == last.args.insurer_wallet
                  r == last.args.reviewer_wallet
              IN  IF r \in Range(before.claimsReviewers[i])
                  THEN /\ last.ret = Ok(<<>>)
                       /\ claimsReviewers[i] = Without(before.claimsReviewers[i], r)
                       /\ Len(claimsReviewers[i]) = Len(before.claimsReviewers[i]) - 1
                       /\ \A w \in DOMAIN before.claimsReviewers \ {i} : claimsReviewers[w] = before.claimsReviewers[w]
                       /\ insurer = before.insurer
                  ELSE /\ last.ret = Panic("Reviewer not found")
                       /\ registry = OldRegistry

\* RB, the second of the three reviewers of IA, has just been removed: RA
\* and RC remain, in that order, and RB is no longer authorized.
C40_Witness ==
    /\ last.op = "remove_claims_reviewer"
    /\ last.ret = Ok(<<>>)
    /\ last.args = [insurer_wallet |-> "IA", reviewer_wallet |-> "RB"]
    /\ claimsReviewers["IA"] = <<"RA", "RC">>
    /\ ~IsAuthorizedResult("IA", "RB")
    /\ IsAuthorizedResult("IA", "RC")

====
